---------------------------- MODULE Spec2Model ----------------------------
(***************************************************************************)
(* adobe/node-openwhisk-newrelic: the process-wide send queue              *)
(* (lib/queue.js), the per-activation NewRelic agent with its deadline     *)
(* timer and continuation-local activation scope (lib/newrelic.js), and    *)
(* the HTTP client probe (lib/probe/http-client.js, lib/probe/fnwrap.js).  *)
(*                                                                         *)
(* One action is one run-to-completion piece of JavaScript: a call from    *)
(* user code, a timer callback, or the continuation after an await.        *)
(***************************************************************************)
EXTENDS Integers, Sequences, FiniteSets, Bags, TLC

(* ------------------------------ bounds -------------------------------- *)

\* concurrent activations of the action in this process
NumActivations == 2
\* API calls (send, activationFinished, http request) made by all activations
MaxOps == 2
\* outgoing http requests issued by user code
MaxRequests == 2
\* calls of add(), get() and send() made by the main of one activation
MaxMetricsCalls == 3
\* calls of start() and stop() a program makes on the probe
MaxProbeCalls == 3
\* ticks of the clock while one request is in flight, and the length of a tick in
\* nanoseconds
MaxTime == 4
TickNs == 400000000

(* ------------------------- program constants -------------------------- *)

MAX_EVENTS == 50
NS_PER_SEC == 1000000000
MS_PER_NS == 1000000
USER_AGENT == "adobe-openwhisk-newrelic/1.0"

Activations == 1..NumActivations
\* no continuation-local context is active
NoScope == 0

VARIABLES
    \* lib/queue.js
    queue,        \* const queue = []: the metric events to send
    endpoint,     \* const endpoint = { url, apiKey }
    sendTimer,    \* let sendTimer: the setInterval handle, and the context it was created in
    intervals,    \* the interval timers of the runtime that call sendQueue
    immediates,   \* setImmediate(sendQueue) callbacks not yet run, oldest first
    flights,      \* invocations of sendQueue() suspended at an await, oldest first
    \* lib/newrelic.js
    agent,        \* the NewRelic object of each activation, and the activation's position
    cls,          \* activationVars: per scope, the value set under CLS_KEY_NEWRELIC
    ops,          \* API calls made so far
    \* lib/probe/http-client.js
    probe,        \* the http and https modules: their request function and what fnwrap keeps
    reqs,         \* one HttpRequestMetrics per call of the wrapped request()
    \* what the outside world has seen
    pushed,       \* every event ever pushed on the queue
    posts,        \* bag of fetch() calls made by sendQueue: [batch, url, key]
    accepted,     \* bag of batches the endpoint answered with status 200
    rejections,   \* callers of sendQueue() whose promise was rejected
    uncaught,     \* exceptions thrown by probe listeners into the emitting http client
    called,       \* the call a program made last on a module it uses directly; for the
                  \* probe's start(), the callback it gave
    clock,        \* the clock process.hrtime() reads, in ticks
    self,         \* the NewRelic object of the agent that keeps its own queue
                  \* (src/lib/newrelic.js), with its timers and its fetch() calls
    sampler       \* a Sampler (lib/sampler.js) with its interval timer

queueVars == <<queue, endpoint, sendTimer, intervals, immediates, flights>>
agentVars == <<agent, cls, ops>>
probeVars == <<probe, reqs>>
worldVars == <<pushed, posts, accepted, rejections, uncaught, called, clock, self, sampler>>
vars == <<queueVars, agentVars, probeVars, worldVars>>

Min(a, b) == IF a < b THEN a ELSE b

Range(s) == {s[k] : k \in 1..Len(s)}

RemoveAt(s, k) == SubSeq(s, 1, k - 1) \o SubSeq(s, k + 1, Len(s))

(* ------------------------------ events -------------------------------- *)

\* The object Agent.send() builds: eventType and the activationId of the agent's
\* defaultMetrics (a), the agent's running number of the event (i), what made it
\* (src: "send", "http", "deadline"), for an http event the request (r), and
\* whether Metrics.flatten() accepts it (ok: no function or symbol value).
Event(a, i, type, src, r, ok) ==
    [a |-> a, i |-> i, type |-> type, src |-> src, r |-> r, ok |-> ok]

(* ---------------------------- lib/queue.js ----------------------------- *)

\* Metrics.flatten(m) for every m of the batch: throws on the first unsupported one
Flattens(batch) == \A k \in 1..Len(batch) : batch[k].ok

\* a splice that removes the whole queue, whatever its length
SpliceWhole(q) == q

\* a splice that hands the removed events over last-in first
SpliceReversed(q) ==
    [k \in 1..Min(Len(q), MAX_EVENTS) |-> q[Min(Len(q), MAX_EVENTS) + 1 - k]]

\* a slice in place of the splice: nothing leaves the queue
SpliceKeep(q) == q

\* queue.splice(0, MAX_EVENTS): the removed head ...
SpliceBatch(q) == SubSeq(q, 1, Min(Len(q), MAX_EVENTS))

\* ... and what stays in the queue
SpliceRest(q) == SubSeq(q, Min(Len(q), MAX_EVENTS) + 1, Len(q))

\* sendQueue() without its try { } catch (e) { }
TryCoversNothing(step) == FALSE

\* The try { } catch (e) { } of sendQueue() spans every step after the splice that
\* can throw: "flatten", "gzip", "fetch" (the request fails), "json"
\* (response.json() fails on a 200). A status other than 200 throws nothing.
TryCovers(step) == step \in {"flatten", "gzip", "fetch", "json"}

\* how the promise of sendQueue() settles when `step` throws
Settles(step) == IF TryCovers(step) THEN "resolved" ELSE "rejected"

\* identifies a sendQueue() invocation by the first event it took
FlightKey(batch) == <<batch[1].a, batch[1].i>>

\* sendQueue() called on queue contents q by `owner` in context `scope`, up to its
\* first await: what it leaves in the queue, the setImmediate it schedules, the
\* suspended invocation (none when the queue is empty or flatten throws) and,
\* when it has already returned, how its promise settled.
SendQueueCall(q, owner, scope) ==
    IF Len(q) = 0
    THEN [queue |-> q, imm |-> <<>>, flight |-> <<>>, result |-> "resolved"]
    ELSE LET batch == SpliceBatch(q)
             rest  == SpliceRest(q)
             imm   == IF Len(rest) > 0
                      THEN <<[scope |-> scope, by |-> FlightKey(batch)]>>
                      ELSE <<>>
         IN  IF Flattens(batch)
             THEN [queue |-> rest, imm |-> imm,
                   flight |-> <<[batch |-> batch, url |-> endpoint.url,
                                 key |-> endpoint.apiKey, phase |-> "gzip",
                                 owner |-> owner, scope |-> scope]>>,
                   result |-> "pending"]
             ELSE [queue |-> rest, imm |-> imm, flight |-> <<>>,
                   result |-> Settles("flatten")]

\* the state after SendQueueCall returned c
ApplyCall(c, owner) ==
    /\ queue' = c.queue
    /\ immediates' = immediates \o c.imm
    /\ flights' = flights \o c.flight
    /\ rejections' = IF c.result = "rejected" THEN rejections \cup {owner.kind}
                     ELSE rejections

Owner(kind, a) == [kind |-> kind, a |-> a]

\* a start() that calls setInterval() every time
StartsTimerAlways(t) == TRUE

\* if (!sendTimer): start() calls setInterval() only when it holds no handle
StartsTimer(t) == ~t.on

\* start(url, apiKey, sendInterval), called in context `scope`
QueueStart(url, apiKey, sendInterval, scope) ==
    /\ endpoint' = [url |-> url, apiKey |-> apiKey]
    /\ sendTimer' = IF StartsTimer(sendTimer)
                    THEN [on |-> TRUE, scope |-> scope, interval |-> sendInterval]
                    ELSE sendTimer
    /\ intervals' = IF StartsTimer(sendTimer)
                    THEN intervals \cup {[scope |-> scope, interval |-> sendInterval]}
                    ELSE intervals

\* the setInterval(sendQueue, sendInterval) callback of a timer of the runtime
Tick ==
    \E t \in intervals :
    /\ ApplyCall(SendQueueCall(queue, Owner("tick", 0), t.scope),
                 Owner("tick", 0))
    /\ UNCHANGED <<endpoint, sendTimer, intervals, agentVars, probeVars,
                   pushed, posts, accepted, uncaught, called, clock, self, sampler>>

\* the setImmediate(sendQueue) callback
RunImmediate ==
    /\ Len(immediates) > 0
    /\ LET c == SendQueueCall(queue, Owner("chain", 0), immediates[1].scope)
       IN  /\ queue' = c.queue
           /\ immediates' = Tail(immediates) \o c.imm
           /\ flights' = flights \o c.flight
           /\ rejections' = IF c.result = "rejected"
                            THEN rejections \cup {"chain"} ELSE rejections
    /\ UNCHANGED <<endpoint, sendTimer, intervals, agentVars, probeVars,
                   pushed, posts, accepted, uncaught, called, clock, self, sampler>>

(* -------------------------- lib/probe/fnwrap.js ------------------------- *)

\* the modules whose request() the probe wraps
Modules == {"http", "https"}

\* A function that takes the place of request() is written as the callbacks of
\* the wrappers around node's own function, outermost first; node's own is <<>>.
Original == <<>>

\* a module as node loads it: obj.request, and obj.____request_original (<<>>:
\* undefined, <<f>>: the function f)
Unwrapped == [request |-> Original, original |-> <<>>]

\* a check that never sees the saved original
IsWrappedNever(obj) == FALSE

\* isWrapped(obj, "request")
IsWrapped(obj) == obj.original # <<>>

\* wrapFunction(obj, "request", requestWithMetrics, {metricsCallback})
WrapFunction(obj, metricsCallback) ==
    IF IsWrapped(obj) THEN obj
    ELSE [request |-> <<metricsCallback>> \o obj.request, original |-> <<obj.request>>]

\* an unwrap that leaves the saved original behind
UnwrapKeepsOriginal(obj) ==
    IF IsWrapped(obj) THEN [request |-> obj.original[1], original |-> obj.original]
    ELSE obj

\* unwrapFunction(obj, "request")
UnwrapFunction(obj) ==
    IF IsWrapped(obj) THEN [request |-> obj.original[1], original |-> <<>>]
    ELSE obj

(* ---------------------- lib/probe/http-client.js ------------------------ *)

\* process.hrtime() at tick t: [seconds, nanoseconds]
Hrtime(t) == <<(t * TickNs) \div NS_PER_SEC, (t * TickNs) % NS_PER_SEC>>

\* a delta taken the wrong way round
GetDurationBackwards(startTime, endTime) ==
    IF startTime = <<>> \/ endTime = <<>> THEN <<>>
    ELSE LET deltaSec == startTime[1][1] - endTime[1][1]
             deltaNanos == startTime[1][2] - endTime[1][2]
         IN  <<(deltaSec * NS_PER_SEC + deltaNanos) \div MS_PER_NS>>

\* getDurationInMs(startTime, endTime) of two anchors (<<>>: undefined, <<h>>: the
\* reading h); the result is <<>> for undefined, and every tick is a whole number
\* of milliseconds
GetDurationInMs(startTime, endTime) ==
    IF startTime = <<>> \/ endTime = <<>> THEN <<>>
    ELSE LET deltaSec == endTime[1][1] - startTime[1][1]
             deltaNanos == endTime[1][2] - startTime[1][2]
         IN  <<(deltaSec * NS_PER_SEC + deltaNanos) \div MS_PER_NS>>

\* this.timings of a new HttpRequestMetrics, without the anchors of the socket's
\* own events (lookup, connect, secureConnect)
NewTimings(t) ==
    [startAt |-> <<Hrtime(t)>>, socketAt |-> <<>>, sentRequestAt |-> <<>>,
     firstByteAt |-> <<>>, endAt |-> <<>>, errorAt |-> <<>>]

\* getTimingMetrics()
GetTimingMetrics(t) ==
    [duration |-> GetDurationInMs(t.startAt, IF t.errorAt # <<>> THEN t.errorAt ELSE t.endAt),
     durationBlocked |-> GetDurationInMs(t.startAt, t.socketAt),
     durationWait |-> GetDurationInMs(t.sentRequestAt, t.firstByteAt),
     durationReceive |-> GetDurationInMs(t.firstByteAt, t.endAt)]

\* start(metricsCallback) and stop() on modules mods
Started(mods, metricsCallback) == [m \in Modules |-> WrapFunction(mods[m], metricsCallback)]
Stopped(mods) == [m \in Modules |-> UnwrapFunction(mods[m])]

\* the functions a caller of http.request() or https.request() reaches
EntryPoints == {probe[m].request : m \in Modules}

\* A header value as request.getHeader() returns it: undefined (no value), a
\* string (one value) or an array of strings.
Header(arr, v) == [arr |-> arr, v |-> v]

\* the User-Agent header sendQueue() gives its POST
PostUserAgent == Header(FALSE, <<USER_AGENT>>)

\* a probe that looks at no header
IgnoreNothing(ua) == FALSE

\* HttpRequestMetrics.ignoreRequest()
IgnoreRequest(ua) ==
    LET first == IF ua.arr /\ Len(ua.v) > 0
                 THEN Header(FALSE, <<ua.v[1]>>) ELSE ua
    IN  /\ ua.arr \/ (Len(ua.v) > 0 /\ ua.v[1] # "")
        /\ ~first.arr
        /\ first.v = <<USER_AGENT>>

\* new HttpRequestMetrics()...getRequest() for a request made in context `scope`:
\* the callback of the installed wrapper, and onRequest()'s listeners unless the
\* request is ignored. Without the wrapper the request is the original one.
NewRequest(scope, ua, post, fn) ==
    LET observed == fn # Original /\ ~IgnoreRequest(ua)
    IN  [scope |-> scope, ua |-> ua, post |-> post,
         cb |-> IF fn = Original THEN "none" ELSE fn[1],
         wrappers |-> Len(fn),       \* HttpRequestMetrics objects made for the call
         observed |-> observed,
         errListener |-> observed,   \* prependOnceListener("error")
         response |-> FALSE,         \* onResponse() ran
         ended |-> FALSE,            \* the response emitted "end"
         triggered |-> FALSE,        \* this.metricsTriggered
         cbCalls |-> 0,              \* calls of this.metricsCallback
         first |-> "none",           \* the event that first called triggerMetrics()
         err |-> <<>>,               \* the err of that event, if it was "error"
         after |-> called,           \* the call on the probe the request was issued after
         emittedAfter |-> <<>>,      \* the call on the probe its first record came after
         logged |-> 0,               \* console.error() calls of the callback
         timings |-> IF fn = Original THEN <<>> ELSE NewTimings(clock),
         timing |-> <<>>,            \* getTimingMetrics() of the callback's calls
         records |-> <<>>]           \* the extraMetrics of the callback's calls

\* the agent kept in one variable of the module instead: the last one constructed
\* wins (activations are numbered in the order of their ids)
ClsGetShared(scope) ==
    IF \A i \in Activations : cls[i] = 0 THEN 0
    ELSE cls[CHOOSE i \in Activations :
                 cls[i] # 0 /\ \A j \in Activations : cls[j] # 0 => j <= i]

\* activationVars.get(CLS_KEY_NEWRELIC) in context `scope`
ClsGet(scope) == IF scope = NoScope THEN 0 ELSE cls[scope]

\* The callback instrumentHttpClient() gives the probe, run in context `scope`
\* for request r: the agent whose send("http", metrics) it calls, or 0.
InstrumentCbAgent(scope) ==
    IF scope # NoScope /\ ClsGet(scope) # 0 /\ agent[ClsGet(scope)].canSend
    THEN ClsGet(scope) ELSE 0

\* the errors a request can emit: err.message and err.code
Errors ==
    {[message |-> "socket hang up", code |-> "ECONNRESET"],
     [message |-> "connect ECONNREFUSED", code |-> "ECONNREFUSED"]}

\* a timeout reported with the values of the last error
OnTimeoutAsError(err) ==
    [error |-> TRUE, errorMessage |-> err.message, errorCode |-> err.code]

\* the extraMetrics of response.on("end"), onError(err) and onTimeout(); a
\* number is written as its decimal text
OnEndMetrics == [requestBodySize |-> "0", responseBodySize |-> "0"]
OnErrorMetrics(err) ==
    [error |-> TRUE, errorMessage |-> err.message, errorCode |-> err.code]
OnTimeoutMetrics ==
    [error |-> TRUE, errorMessage |-> "Connection timed out", errorCode |-> "110"]

\* whether the callback of instrumentHttpClient(), run in context `scope`, calls
\* console.error(): a context is active and holds no agent
CallbackLogs(scope) == scope # NoScope /\ ClsGet(scope) = 0

\* listeners that stop() takes off the requests in flight
ListeningWhileInstalled(q) == q.observed /\ \E m \in Modules : IsWrapped(probe[m])

\* whether the listeners of onRequest() are on the request whose record is q
Listening(q) == q.observed

\* triggerMetrics(extraMetrics) called by the listener of event `ev` on request
\* r, whose record the listener has left as q; `threw` says whether a callback
\* that other code gave to start() throws this time.
TriggerMetrics(r, q, ev, extraMetrics, threw) ==
    LET j == InstrumentCbAgent(q.scope)
    IN  IF q.triggered
        THEN /\ reqs' = [reqs EXCEPT ![r] = q]
             /\ UNCHANGED <<queue, agent, pushed, uncaught>>
        ELSE /\ reqs' = [reqs EXCEPT ![r] =
                    [q EXCEPT !.cbCalls = @ + 1,
                              !.first = IF @ = "none" THEN ev ELSE @,
                              !.records = Append(@, extraMetrics),
                              !.timing = Append(@, GetTimingMetrics(q.timings)),
                              !.emittedAfter = IF @ = <<>> THEN <<called>> ELSE @,
                              !.logged = IF q.cb = "newrelic" /\ CallbackLogs(q.scope)
                                         THEN @ + 1 ELSE @,
                              \* this.metricsTriggered = true, after the callback returned
                              !.triggered = ~(q.cb = "user" /\ threw)]]
             /\ uncaught' = IF q.cb = "user" /\ threw
                            THEN uncaught \cup {r} ELSE uncaught
             /\ IF q.cb = "newrelic" /\ j # 0
                THEN LET e == Event(j, agent[j].enq + 1, "http", "http", r, TRUE)
                     IN  /\ queue' = Append(queue, e)
                         /\ pushed' = pushed \cup {e}
                         /\ agent' = [agent EXCEPT ![j].enq = @ + 1]
                ELSE UNCHANGED <<queue, agent, pushed>>

\* calls of one request's metricsCallback explored (a callback that throws is
\* called again by every later event)
MaxCbCalls == 2

\* the request emits "response": onResponse()
ReqResponse(r) ==
    /\ ~reqs[r].response
    /\ reqs' = [reqs EXCEPT ![r].response = TRUE]
    /\ UNCHANGED <<queueVars, agentVars, probe, worldVars>>

\* the response emits "end"
ReqEnd(r, threw) ==
    /\ reqs[r].response /\ ~reqs[r].ended
    /\ IF Listening(reqs[r])
       THEN TriggerMetrics(r, [reqs[r] EXCEPT !.ended = TRUE,
                                              !.timings.endAt = <<Hrtime(clock)>>],
                           "end", OnEndMetrics, threw)
       ELSE /\ reqs' = [reqs EXCEPT ![r].ended = TRUE]
            /\ UNCHANGED <<queue, agent, pushed, uncaught>>
    /\ UNCHANGED <<endpoint, sendTimer, intervals, immediates, flights, cls, ops, probe,
                   posts, accepted, rejections, called, clock, self, sampler>>

\* the request emits "error": onError(err), a once-listener
ReqError(r, err, threw) ==
    /\ Listening(reqs[r]) /\ reqs[r].errListener
    /\ TriggerMetrics(r, [reqs[r] EXCEPT !.errListener = FALSE,
                                         !.timings.errorAt = <<Hrtime(clock)>>,
                                         !.err = IF reqs[r].first = "none"
                                                 THEN <<err>> ELSE @],
                      "error", OnErrorMetrics(err), threw)
    /\ UNCHANGED <<endpoint, sendTimer, intervals, immediates, flights, cls, ops, probe,
                   posts, accepted, rejections, called, clock, self, sampler>>

\* the request emits "timeout": onTimeout()
ReqTimeout(r, threw) ==
    /\ Listening(reqs[r]) /\ reqs[r].cbCalls < MaxCbCalls
    /\ TriggerMetrics(r, [reqs[r] EXCEPT !.timings.errorAt = <<Hrtime(clock)>>],
                      "timeout", OnTimeoutMetrics, threw)
    /\ UNCHANGED <<endpoint, sendTimer, intervals, immediates, flights, cls, ops, probe,
                   posts, accepted, rejections, called, clock, self, sampler>>

\* the request emits "socket": onSocket()
ReqSocket(r) ==
    /\ Listening(reqs[r]) /\ reqs[r].timings.socketAt = <<>>
    /\ reqs' = [reqs EXCEPT ![r].timings.socketAt = <<Hrtime(clock)>>]
    /\ UNCHANGED <<queueVars, agentVars, probe, worldVars>>

\* the request emits "finish": the last byte of the request has been sent
ReqFinish(r) ==
    /\ Listening(reqs[r]) /\ reqs[r].timings.sentRequestAt = <<>>
    /\ reqs' = [reqs EXCEPT ![r].timings.sentRequestAt = <<Hrtime(clock)>>]
    /\ UNCHANGED <<queueVars, agentVars, probe, worldVars>>

\* the response emits "readable" for the first time: a once-listener of onResponse()
ReqReadable(r) ==
    /\ Listening(reqs[r]) /\ reqs[r].response /\ reqs[r].timings.firstByteAt = <<>>
    /\ reqs' = [reqs EXCEPT ![r].timings.firstByteAt = <<Hrtime(clock)>>]
    /\ UNCHANGED <<queueVars, agentVars, probe, worldVars>>

\* time passes
Elapse ==
    /\ clock < MaxTime
    /\ clock' = clock + 1
    /\ UNCHANGED <<queueVars, agentVars, probeVars, pushed, posts, accepted, rejections,
                   uncaught, called, self, sampler>>

\* whether a user callback throws is an input only where there is one
Throws(r) == IF reqs[r].cb = "user" /\ ~reqs[r].triggered THEN BOOLEAN ELSE {FALSE}

RequestEvents ==
    \E r \in 1..Len(reqs) :
        \/ ReqResponse(r)
        \/ \E threw \in Throws(r) : ReqEnd(r, threw)
        \/ \E err \in Errors, threw \in Throws(r) : ReqError(r, err, threw)
        \/ \E threw \in Throws(r) : ReqTimeout(r, threw)

(* ----------------- lib/queue.js: sendQueue() after its awaits ------------ *)

\* how the promise of an invocation settled reaches who awaits it
Settle(owner, result) ==
    /\ rejections' = IF result = "rejected" THEN rejections \cup {owner.kind}
                     ELSE rejections
    /\ agent' = IF owner.kind = "send"
                THEN [agent EXCEPT ![owner.a].pc = "run"]
                ELSE IF owner.kind = "deadline"
                THEN [agent EXCEPT ![owner.a].handler = result]
                ELSE agent

\* await gzip(...) returns and fetch(endpoint.url, ...) is called: the request goes
\* through http(s).request, wrapped or not
GzipDone(k) ==
    /\ flights[k].phase = "gzip"
    /\ flights' = [flights EXCEPT ![k].phase = "post"]
    /\ posts' = posts (+) SetToBag({[batch |-> flights[k].batch,
                                     url |-> flights[k].url, key |-> flights[k].key]})
    /\ \E fn \in EntryPoints :
          reqs' = IF NewRequest(flights[k].scope, PostUserAgent, TRUE, fn).observed
                  THEN Append(reqs, NewRequest(flights[k].scope, PostUserAgent, TRUE, fn))
                  ELSE reqs
    /\ UNCHANGED <<queue, endpoint, sendTimer, intervals, immediates, agentVars, probe,
                   pushed, accepted, rejections, uncaught, called, clock, self, sampler>>

\* what await fetch(...) and the lines after it can do: "ok" (200, body parsed),
\* "json" (200, response.json() throws), "status" (not 200), "fetch" (the request fails)
PostOutcomes == {"ok", "json", "status", "fetch"}

\* The POST of flights[k] ends in outcome o and sendQueue() returns. The
\* setImmediate callback this invocation scheduled has run by then: it runs in
\* the same turn of the event loop, the response arrives in a later one.
PostDone(k, o) ==
    /\ flights[k].phase = "post"
    /\ \A m \in 1..Len(immediates) : immediates[m].by # FlightKey(flights[k].batch)
    /\ flights' = RemoveAt(flights, k)
    /\ accepted' = IF o \in {"ok", "json"}
                   THEN accepted (+) SetToBag({flights[k].batch}) ELSE accepted
    /\ Settle(flights[k].owner,
              IF o \in {"json", "fetch"} THEN Settles(o) ELSE "resolved")
    /\ UNCHANGED <<queue, endpoint, sendTimer, intervals, immediates, cls, ops, probeVars,
                   pushed, posts, uncaught, called, clock, self, sampler>>

\* the continuations of the suspended invocations, the endpoint answering with
\* one of `outcomes`
FlightSteps(outcomes) ==
    \E k \in 1..Len(flights) :
        \/ GzipDone(k)
        \/ \E o \in outcomes : PostDone(k, o)

(* ---------------------------- metrics objects --------------------------- *)

\* A metrics object is a function from its own keys to their values. A value
\* names the source that wrote it and the number of calls main had made by then.
Val(src, at) == [src |-> src, at |-> at]
Obj(keys, src, at) == [k \in keys |-> Val(src, at)]

\* the attributes of ENV_VAR_METRICS, one for each variable of the environment
IdentityKeys == {"activationId"}

\* a spread in which the first object to name a key keeps it
MergeFirstWins(a, b) ==
    [k \in DOMAIN a \cup DOMAIN b |-> IF k \in DOMAIN a THEN a[k] ELSE b[k]]

\* a spread that forgets the object it starts from
MergeOverwrite(a, b) == b

\* { ...a, ...b } and Object.assign(a, b): the keys of both, b's value where both
\* have the key
Merge(a, b) ==
    [k \in DOMAIN a \cup DOMAIN b |-> IF k \in DOMAIN b THEN b[k] ELSE a[k]]

\* Metrics.openwhisk(): the attribute of every variable set in the environment
\* (env: the attributes of the variables that are set), and the node version
OpenWhisk(env) == Obj(env \cup {"nodeVersion"}, "env", 0)

\* the metrics object send(eventType, metrics) builds, Metrics.timestamp() being now
MergedEvent(eventType, now, defaultMetrics, metrics) ==
    Merge(Merge([eventType |-> Val(eventType, now), timestamp |-> Val("now", now)],
                defaultMetrics),
          metrics)

\* an add() that leaves the defaults as they are
NewDefaultsKept(defaultMetrics, metrics) == defaultMetrics

\* the object add(metrics) assigns to this.defaultMetrics
NewDefaults(defaultMetrics, metrics) == Merge(defaultMetrics, metrics)

\* An event of activation a with its content: m the merged object that is pushed,
\* given the metrics the caller passed.
MetricsEvent(a, i, type, src, m, given) ==
    [a |-> a, i |-> i, type |-> type, src |-> src, r |-> 0, ok |-> TRUE,
     m |-> m, given |-> given]

(* --------------------------- lib/newrelic.js ---------------------------- *)

\* the newRelicEventsURL and newRelicApiKey activation i passes (0: undefined)
UrlOf(i) == i
KeyOf(i) == i
\* the sendIntervalMs it passes
IntervalOf(i) == i

\* Options of new NewRelic(options): valid (neither URL nor API key is blank), arm
\* (neither options.disableActionTimeout nor DISABLE_ACTION_TIMEOUT_METRIC), and
\* what actionTimeoutMetricsCb returns: "none" (no callback), "custom" (a bag with
\* an eventType of its own)
AgentOptions ==
    {[valid |-> TRUE, arm |-> FALSE, cb |-> "none", env |-> {}, defaultMetrics |-> <<>>],
     [valid |-> TRUE, arm |-> TRUE, cb |-> "none", env |-> {}, defaultMetrics |-> <<>>]}

\* a constructor that keeps whatever it is given as actionTimeoutMetricsCb
KeptCallbackAny(cb) == cb

\* options.actionTimeoutMetricsCb after the constructor has looked at it: "none"
\* (undefined, or deleted because it is no function), "function" and "custom"
\* (functions; the bag of the second has an eventType), "object" (not a function)
KeptCallback(cb) == IF cb \in {"function", "custom"} THEN cb ELSE "none"

\* what actionTimeoutMetricsCb() returns when it is called at time `now`
CallbackResult(cb, now) ==
    IF cb = "custom" THEN Obj({"eventType", "test"}, "callback", now)
    ELSE IF cb = "function" THEN Obj({"test"}, "callback", now)
    ELSE <<>>

\* an agent that arms its timer whatever it is told
ArmsAlways(disableActionTimeout, envDisabled) == TRUE

\* whether the constructor arms the deadline timer, given
\* options.disableActionTimeout and DISABLE_ACTION_TIMEOUT_METRIC
Arms(disableActionTimeout, envDisabled) == ~disableActionTimeout /\ ~envDisabled

\* an activation that has not called its main yet
NoAgent ==
    [pc |-> "new", canSend |-> FALSE, timer |-> "unset", cb |-> "none",
     handler |-> "none", enq |-> 0, nsend |-> 0, fin |-> 0, snap |-> <<>>,
     \* the options it was constructed with; the event of its last send(.., true)
     opts |-> <<>>, imm |-> <<>>,
     \* the objects it has made, this.defaultMetrics and the object get() returned
     \* last (places in objs, 0: none), and the objects merged into the defaults
     objs |-> <<>>, defaultMetrics |-> 0, got |-> 0, sources |-> <<>>,
     \* Metrics.timeUntilTimeout() when the timer was armed: the calls made by then
     timeout |-> 0]

\* The wrapper NewRelic.instrument() returns runs main in a context of its own
\* (activationVars.runAndReturn), and main constructs its agent.
Activate(i, o) ==
    /\ agent[i].pc = "new"
    /\ agent' = [agent EXCEPT ![i] =
            [NoAgent EXCEPT !.pc = "run",
                            !.opts = o,
                            \* Object.assign(Metrics.openwhisk(), defaultMetrics)
                            !.objs = <<Merge(OpenWhisk(o.env), o.defaultMetrics)>>,
                            !.defaultMetrics = 1,
                            !.sources = <<OpenWhisk(o.env), o.defaultMetrics>>,
                            !.canSend = o.valid,
                            \* this.actionTimeoutHandlerId = sendMetricsOnActionTimeout(...)
                            !.timer = IF o.valid /\ o.arm THEN "armed" ELSE "unset",
                            !.timeout = IF o.valid /\ o.arm THEN ops ELSE 0,
                            !.cb = IF o.valid /\ o.arm THEN KeptCallback(o.cb) ELSE "none"]]
    /\ IF o.valid
       THEN /\ QueueStart(UrlOf(i), KeyOf(i), IntervalOf(i), i)
            /\ cls' = [cls EXCEPT ![i] = i]
       ELSE UNCHANGED <<endpoint, sendTimer, intervals, cls>>
    /\ UNCHANGED <<queue, immediates, flights, ops, probeVars, worldVars>>

\* agent.send(eventType, metrics, immediately) called by main of activation i,
\* e the merged metrics of the call, `most` the calls main may make
AgentSendEvent(i, e, immediately, most) ==
    /\ agent[i].pc = "run"
    /\ ops < most
    /\ ops' = ops + 1
    /\ IF ~agent[i].canSend
       THEN /\ agent' = [agent EXCEPT ![i].nsend = @ + 1]
            /\ UNCHANGED <<queue, immediates, flights, pushed, rejections>>
       ELSE LET c == SendQueueCall(Append(queue, e), Owner("send", i), i)
            IN  /\ pushed' = pushed \cup {e}
                /\ IF immediately
                   THEN /\ ApplyCall(c, Owner("send", i))
                        /\ agent' = [agent EXCEPT
                               ![i].enq = @ + 1, ![i].nsend = @ + 1,
                               ![i].imm = <<e>>,
                               ![i].pc = IF c.result = "pending" THEN "await" ELSE "run"]
                   ELSE /\ queue' = Append(queue, e)
                        /\ agent' = [agent EXCEPT ![i].enq = @ + 1, ![i].nsend = @ + 1]
                        /\ UNCHANGED <<immediates, flights, rejections>>
    /\ UNCHANGED <<endpoint, sendTimer, intervals, cls, probeVars, posts, accepted, uncaught, called, clock, self, sampler>>

\* a send() whose metrics are told apart by their number only; ok: whether
\* Metrics.flatten() accepts them
AgentSend(i, immediately, ok) ==
    AgentSendEvent(i, Event(i, agent[i].enq + 1, "custom_event", "send", 0, ok),
                   immediately, MaxOps)

\* a clearTimeout() that is given the wrong handle
ClearTimeoutNoop(t) == t

\* clearTimeout(id) on a timer in state t: nothing to clear unless it is pending
ClearTimeout(t) == IF t = "armed" THEN "cleared" ELSE t

\* agent.activationFinished(): clearTimeout(this.actionTimeoutHandlerId)
ActivationFinished(i) ==
    /\ agent[i].pc = "run"
    /\ ops < MaxOps
    /\ ops' = ops + 1
    /\ agent' = [agent EXCEPT ![i].timer = ClearTimeout(@), ![i].fin = @ + 1]
    /\ UNCHANGED <<queueVars, cls, probeVars, worldVars>>

\* a setInterval() in place of the setTimeout(): the timer stays pending
TimerRearmed == "armed"

\* setTimeout() runs its callback once: the state of the timer after it has run
TimerFired == "fired"

\* The setTimeout callback of sendMetricsOnActionTimeout(): self.send("timeout",
\* metrics, true), e the merged metrics of that call.
DeadlineFireEvent(i, e) ==
    /\ agent[i].timer = "armed"
    /\ LET c == SendQueueCall(Append(queue, e), Owner("deadline", i), i)
       IN  /\ pushed' = pushed \cup {e}
           /\ ApplyCall(c, Owner("deadline", i))
           /\ agent' = [agent EXCEPT
                  ![i].timer = TimerFired, ![i].enq = @ + 1,
                  ![i].snap = Append(queue, e),
                  ![i].handler = IF c.result = "pending" THEN "flushing" ELSE c.result]
    /\ UNCHANGED <<endpoint, sendTimer, intervals, cls, ops, probeVars, posts, accepted, uncaught, called, clock, self, sampler>>

\* the deadline's event told apart by its number only; an eventType in the bag
\* of actionTimeoutMetricsCb replaces "timeout"
DeadlineFire(i) ==
    DeadlineFireEvent(i, Event(i, agent[i].enq + 1,
                               IF agent[i].cb = "custom" THEN "custom" ELSE "timeout",
                               "deadline", 0, TRUE))

\* this.defaultMetrics of the agent of activation i
Defaults(i) == agent[i].objs[agent[i].defaultMetrics]

\* agent.add(metrics) by main of activation i: a new object becomes the defaults
AgentAdd(i, metrics) ==
    /\ agent[i].pc = "run"
    /\ ops < MaxMetricsCalls
    /\ ops' = ops + 1
    /\ agent' = [agent EXCEPT
           ![i].objs = Append(@, NewDefaults(Defaults(i), metrics)),
           ![i].defaultMetrics = Len(agent[i].objs) + 1,
           ![i].sources = Append(@, metrics)]
    /\ UNCHANGED <<queueVars, cls, probeVars, worldVars>>

\* agent.get() by main of activation i: this.defaultMetrics itself is returned
AgentGet(i) ==
    /\ agent[i].pc = "run"
    /\ ops < MaxMetricsCalls
    /\ ops' = ops + 1
    /\ agent' = [agent EXCEPT ![i].got = agent[i].defaultMetrics]
    /\ UNCHANGED <<queueVars, cls, probeVars, worldVars>>

\* main of activation i sets key k of the object get() returned to it
SetOnReturned(i, k) ==
    /\ agent[i].pc = "run"
    /\ agent[i].got # 0
    /\ ops < MaxMetricsCalls
    /\ ops' = ops + 1
    /\ agent' = [agent EXCEPT
           ![i].objs[agent[i].got] = Merge(@, Obj({k}, "caller", ops + 1))]
    /\ UNCHANGED <<queueVars, cls, probeVars, worldVars>>

\* agent.send("custom_event", metrics) by main of activation i
AgentSendMetrics(i, metrics) ==
    AgentSendEvent(i,
        MetricsEvent(i, agent[i].enq + 1, "custom_event", "send",
                     MergedEvent("custom_event", ops + 1, Defaults(i), metrics),
                     metrics),
        FALSE, MaxMetricsCalls)

\* the deadline of an agent: metrics = {duration: timeout}, or what its
\* actionTimeoutMetricsCb returns
DeadlineFireMetrics(i) ==
    LET metrics == IF agent[i].cb # "none" THEN CallbackResult(agent[i].cb, ops)
                   ELSE Obj({"duration"}, "timeUntilTimeout", agent[i].timeout)
    IN  DeadlineFireEvent(i,
            MetricsEvent(i, agent[i].enq + 1, "timeout", "deadline",
                         MergedEvent("timeout", ops, Defaults(i), metrics),
                         metrics))

\* User-Agent headers of the requests main makes
UserAgents == {Header(FALSE, <<"node-fetch/1.0">>), Header(FALSE, <<USER_AGENT>>)}

\* main of activation i calls http.request() / https.request()
ActRequest(i, ua) ==
    /\ agent[i].pc = "run"
    /\ ops < MaxOps
    /\ Len(reqs) < MaxRequests
    /\ ops' = ops + 1
    /\ \E fn \in EntryPoints : reqs' = Append(reqs, NewRequest(i, ua, FALSE, fn))
    /\ UNCHANGED <<queueVars, agent, cls, probe, worldVars>>

\* a program calls http.request() / https.request() outside any activation
ProbeRequest(ua) ==
    /\ Len(reqs) < MaxRequests
    /\ \E fn \in EntryPoints : reqs' = Append(reqs, NewRequest(NoScope, ua, FALSE, fn))
    /\ UNCHANGED <<queueVars, agentVars, probe, worldVars>>

\* httpClientProbe.start(cb) called by a program
ProbeStart(cb) ==
    /\ ops < MaxProbeCalls
    /\ ops' = ops + 1
    /\ probe' = Started(probe, cb)
    /\ called' = cb
    /\ UNCHANGED <<queueVars, agent, cls, reqs, pushed, posts, accepted, rejections, uncaught, clock, self, sampler>>

\* httpClientProbe.stop() called by a program
ProbeStop ==
    /\ ops < MaxProbeCalls
    /\ ops' = ops + 1
    /\ probe' = Stopped(probe)
    /\ called' = "stop"
    /\ UNCHANGED <<queueVars, agent, cls, reqs, pushed, posts, accepted, rejections, uncaught, clock, self, sampler>>

(* --------------------------- specifications ---------------------------- *)

\* A process that has loaded its code and has run no activation yet; p is the
\* callback the probe was started with.
Loaded(p) ==
    /\ queue = <<>>
    /\ endpoint = [url |-> 0, apiKey |-> 0]
    /\ sendTimer = [on |-> FALSE, scope |-> NoScope, interval |-> 0]
    /\ intervals = {}
    /\ immediates = <<>>
    /\ flights = <<>>
    /\ agent = [i \in Activations |-> NoAgent]
    /\ cls = [i \in Activations |-> 0]
    /\ ops = 0
    /\ probe = IF p = "none" THEN [m \in Modules |-> Unwrapped]
               ELSE Started([m \in Modules |-> Unwrapped], p)
    /\ reqs = <<>>
    /\ pushed = {}
    /\ posts = EmptyBag
    /\ accepted = EmptyBag
    /\ rejections = {}
    /\ uncaught = {}
    /\ clock = 0

\* no agent with a queue of its own and no sampler have been constructed
Unused ==
    /\ self = <<>>
    /\ sampler = <<>>

\* nothing has been called yet on a module the program uses directly
Fresh(p) ==
    /\ Loaded(p)
    /\ called = "none"
    /\ Unused

\* exports.main = NewRelic.instrument(main) has installed the probe with the
\* callback of instrumentHttpClient()
Init == Fresh("newrelic")

\* Concurrent activations of an instrumented action that return long before their
\* deadline, the endpoint answering 200.
Next ==
    \/ \E i \in Activations, o \in {x \in AgentOptions : x.arm} : Activate(i, o)
    \/ \E i \in Activations, immediately \in BOOLEAN : AgentSend(i, immediately, TRUE)
    \/ \E i \in Activations, ua \in UserAgents : ActRequest(i, ua)
    \/ Tick
    \/ FlightSteps({"ok"})
    \/ RequestEvents

Spec == Init /\ [][Next]_vars

\* The probe used on its own: start(cb) with a callback of the program's, which
\* may throw; no agent.
InitProbe == Fresh("user")

\* header values request.getHeader("User-Agent") can return
ProbeUserAgents ==
    UserAgents \cup {Header(FALSE, <<>>), Header(TRUE, <<USER_AGENT>>),
                     Header(TRUE, <<"node-fetch/1.0", USER_AGENT>>)}

NextProbe ==
    \/ \E ua \in ProbeUserAgents : ProbeRequest(ua)
    \/ RequestEvents

SpecProbe == InitProbe /\ [][NextProbe]_vars

\* the events an earlier activation b has sent, all still queued
Backlog(b) == [k \in 1..MAX_EVENTS |-> Event(b, k, "custom_event", "send", 0, TRUE)]

\* The process after earlier activations, the last of which sent MAX_EVENTS events
\* since the last tick, called activationFinished() and returned; activation 1
\* arrives.
InitBacklog ==
    LET b == NumActivations
        Ended == [NoAgent EXCEPT !.pc = "ended", !.canSend = TRUE,
                                 !.timer = "cleared", !.fin = 1]
    IN  /\ queue = Backlog(b)
        /\ endpoint = [url |-> UrlOf(b), apiKey |-> KeyOf(b)]
        /\ sendTimer = [on |-> TRUE, scope |-> b, interval |-> IntervalOf(b)]
        /\ intervals = {[scope |-> b, interval |-> IntervalOf(b)]}
        /\ immediates = <<>>
        /\ flights = <<>>
        /\ agent = [i \in Activations |->
                      IF i = b
                      THEN [Ended EXCEPT !.enq = MAX_EVENTS, !.nsend = MAX_EVENTS]
                      ELSE IF i = 1 THEN NoAgent ELSE Ended]
        /\ cls = [i \in Activations |-> IF i = 1 THEN 0 ELSE i]
        /\ ops = 0
        /\ probe = Started([m \in Modules |-> Unwrapped], "newrelic")
        /\ reqs = <<>>
        /\ pushed = Range(Backlog(b))
        /\ posts = EmptyBag
        /\ accepted = EmptyBag
        /\ rejections = {}
        /\ uncaught = {}
        /\ called = "none"
        /\ clock = 0
        /\ Unused

\* One activation on top of a full queue: events Metrics.flatten() rejects, every
\* answer of the endpoint, the flush chained with setImmediate().
NextQueue ==
    \/ \E i \in Activations, o \in AgentOptions : Activate(i, o)
    \/ \E i \in Activations, immediately \in BOOLEAN, ok \in BOOLEAN :
           AgentSend(i, immediately, ok)
    \/ \E i \in Activations : ActivationFinished(i)
    \/ \E i \in Activations : DeadlineFire(i)
    \/ Tick
    \/ RunImmediate
    \/ FlightSteps(PostOutcomes)

SpecQueue == InitBacklog /\ [][NextQueue]_vars

(* ----------------------- lib/queue.js used directly --------------------- *)

\* calls of start(), send() and stop() a program makes on the queue module
MaxCalls == 3

\* stop(): everything it does happens only while a timer handle is held
QueueStop ==
    IF sendTimer.on
    THEN /\ queue' = <<>>
         /\ intervals' = intervals \ {[scope |-> sendTimer.scope,
                                       interval |-> sendTimer.interval]}
         /\ sendTimer' = [on |-> FALSE, scope |-> NoScope, interval |-> 0]
    ELSE UNCHANGED <<queue, intervals, sendTimer>>

\* sendQueue.start(url, apiKey, sendInterval) by caller u, outside any activation
ApiStart(u) ==
    /\ ops < MaxCalls
    /\ ops' = ops + 1
    /\ called' = "start"
    /\ QueueStart(UrlOf(u), KeyOf(u), IntervalOf(u), NoScope)
    /\ UNCHANGED <<queue, immediates, flights, agent, cls, probeVars,
                   pushed, posts, accepted, rejections, uncaught, clock, self, sampler>>

\* sendQueue.send(metrics, immediately); ok: whether Metrics.flatten() accepts
\* the metrics
ApiSendEvent(immediately, ok) ==
    /\ ops < MaxCalls
    /\ ops' = ops + 1
    /\ called' = "send"
    /\ LET e == Event(0, Cardinality(pushed) + 1, "custom_event", "send", 0, ok)
       IN  /\ pushed' = pushed \cup {e}
           /\ IF immediately
              THEN ApplyCall(SendQueueCall(Append(queue, e), Owner("api", 0), NoScope),
                             Owner("api", 0))
              ELSE /\ queue' = Append(queue, e)
                   /\ UNCHANGED <<immediates, flights, rejections>>
    /\ UNCHANGED <<endpoint, sendTimer, intervals, agent, cls, probeVars,
                   posts, accepted, uncaught, clock, self, sampler>>

\* sendQueue.send(metrics, immediately) with metrics Metrics.flatten() accepts
ApiSend(immediately) == ApiSendEvent(immediately, TRUE)

\* sendQueue.stop()
ApiStop ==
    /\ ops < MaxCalls
    /\ ops' = ops + 1
    /\ called' = "stop"
    /\ QueueStop
    /\ UNCHANGED <<endpoint, immediates, flights, agent, cls, probeVars,
                   pushed, posts, accepted, rejections, uncaught, clock, self, sampler>>

\* a program that uses the queue module itself; no probe, no agent
InitApi == Fresh("none")

NextApi ==
    \/ \E u \in Activations : ApiStart(u)
    \/ \E immediately \in BOOLEAN : ApiSend(immediately)
    \/ ApiStop
    \/ Tick
    \/ FlightSteps(PostOutcomes)

SpecApi == InitApi /\ [][NextApi]_vars

\* A started queue that holds MAX_EVENTS events already and is not stopped: more
\* events are sent, some of which Metrics.flatten() rejects; the interval timer,
\* the chained flushes and the POSTs run with every answer of the endpoint.
NextFlush ==
    \/ \E immediately, ok \in BOOLEAN : ApiSendEvent(immediately, ok)
    \/ Tick
    \/ RunImmediate
    \/ FlightSteps(PostOutcomes)

SpecFlush == InitBacklog /\ [][NextFlush]_vars

\* The event loop runs what is due: the interval timer keeps firing, a callback
\* given to setImmediate() is run, and gzip() and fetch() settle.
SpecFlushFair ==
    /\ SpecFlush
    /\ WF_vars(Tick)
    /\ WF_vars(RunImmediate)
    /\ WF_vars(FlightSteps(PostOutcomes))

(* ------------------- lib/newrelic.js: constructor options --------------- *)

\* A value given as newRelicEventsURL or newRelicApiKey: what typeof says of it
\* (null is kept apart from the other objects) and, for a string, its characters.
Value(type, chars) == [type |-> type, chars |-> chars]

OptionValues ==
    {Value("undefined", <<>>), Value("null", <<>>), Value("number", <<>>),
     Value("string", <<>>), Value("string", <<" ">>),
     Value("string", <<"k">>), Value("string", <<" ", "k">>)}

\* an isBlankString() that finds nothing blank
IsBlankNever(v) == FALSE

\* isBlankString(str): null, undefined, not a string, or matching /^\s*$/
IsBlankString(v) ==
    \/ v.type = "null" \/ v.type = "undefined" \/ v.type # "string"
    \/ \A k \in 1..Len(v.chars) : v.chars[k] = " "

\* a URL or API key the constructor accepts
Good == Value("string", <<"k">>)

\* What main gives new NewRelic(options): no options at all, or URL, API key and
\* disableActionTimeout; every value as the URL, every value as the API key.
ConstructorOptions ==
    {[present |-> FALSE, url |-> Value("undefined", <<>>),
      key |-> Value("undefined", <<>>), disableActionTimeout |-> FALSE]}
    \cup {[present |-> TRUE, url |-> u, key |-> Good, disableActionTimeout |-> FALSE] :
             u \in OptionValues}
    \cup {[present |-> TRUE, url |-> Good, key |-> k, disableActionTimeout |-> FALSE] :
             k \in OptionValues}
    \cup {[present |-> TRUE, url |-> Value("string", <<" ">>),
           key |-> Value("undefined", <<>>), disableActionTimeout |-> FALSE],
          [present |-> TRUE, url |-> Good, key |-> Good, disableActionTimeout |-> TRUE]}

\* the else branch of the constructor is taken: metrics are not disabled
Enabled(c) ==
    ~(~c.present \/ IsBlankString(c.url) \/ IsBlankString(c.key))

\* new NewRelic(c) by main of activation i
Construct(i, c) ==
    Activate(i, [valid |-> Enabled(c), arm |-> ~c.disableActionTimeout,
                 cb |-> "none", env |-> {}, defaultMetrics |-> <<>>, given |-> c])

\* Activations whose mains construct their agents with every kind of options and
\* return long before their deadline.
NextOptions ==
    \/ \E i \in Activations, c \in ConstructorOptions : Construct(i, c)
    \/ \E i \in Activations, immediately \in BOOLEAN : AgentSend(i, immediately, TRUE)
    \/ Tick
    \/ FlightSteps({"ok"})

SpecOptions == Init /\ [][NextOptions]_vars

(* ------------------------- probe start and stop ------------------------ *)

\* the callbacks a program starts the probe with, neither of which throws
Callbacks == {"cb1", "cb2"}

\* A program that starts and stops the probe with callbacks of its own and makes
\* requests in between.
NextInstall ==
    \/ \E cb \in Callbacks : ProbeStart(cb)
    \/ ProbeStop
    \/ ProbeRequest(Header(FALSE, <<"node-fetch/1.0">>))
    \/ RequestEvents

SpecInstall == Fresh("none") /\ [][NextInstall]_vars

(* ------------------- requests outside an activation -------------------- *)

\* options of an agent without a deadline timer, and options without an API key
OutsideOptions ==
    {[valid |-> v, arm |-> FALSE, cb |-> "none", env |-> {}, defaultMetrics |-> <<>>] :
        v \in BOOLEAN}

\* The instrumented process: activations whose mains make requests, and code that
\* makes requests outside any call of the wrapper instrument() returned.
NextOutside ==
    \/ \E i \in Activations, o \in OutsideOptions : Activate(i, o)
    \/ \E i \in Activations : ActRequest(i, Header(FALSE, <<"node-fetch/1.0">>))
    \/ ProbeRequest(Header(FALSE, <<"node-fetch/1.0">>))
    \/ RequestEvents

SpecOutside == Init /\ [][NextOutside]_vars

(* ---------------------------- deadline timer --------------------------- *)

\* What main constructs its agent with: actionTimeoutMetricsCb, the two switches
\* that disable the deadline timer, and default metrics with or without an
\* eventType of their own.
TimeoutOptions ==
    {[valid |-> TRUE, arm |-> Arms(d, v), cb |-> c, env |-> {}, defaultMetrics |-> dm,
      disableActionTimeout |-> d, envDisabled |-> v] :
        c \in {"none", "function", "custom", "object"}, d \in BOOLEAN, v \in BOOLEAN,
        dm \in {<<>>, Obj({"eventType"}, "constructor", 0)}}

\* One activation whose main sends an event and may call activationFinished()
\* before its deadline.
NextTimeout ==
    \/ \E o \in TimeoutOptions : Activate(1, o)
    \/ AgentSendMetrics(1, <<>>)
    \/ ActivationFinished(1)
    \/ DeadlineFireMetrics(1)
    \/ Tick
    \/ FlightSteps({"ok"})

SpecTimeout == Init /\ [][NextTimeout]_vars

(* --------------------------- request timings --------------------------- *)

\* One activation whose main makes one request, the events of which arrive in
\* every order while time passes.
NextTiming ==
    \/ \E o \in {x \in AgentOptions : ~x.arm} : Activate(1, o)
    \/ Len(reqs) = 0 /\ ActRequest(1, Header(FALSE, <<"node-fetch/1.0">>))
    \/ RequestEvents
    \/ \E r \in 1..Len(reqs) : ReqSocket(r) \/ ReqFinish(r) \/ ReqReadable(r)
    \/ Elapse

SpecTiming == Init /\ [][NextTiming]_vars

(* --------------------------- default metrics --------------------------- *)

\* the environment and the defaultMetrics main constructs its agent with
MetricsOptions ==
    {[valid |-> TRUE, arm |-> TRUE, cb |-> "none", env |-> env, defaultMetrics |-> d] :
        env \in SUBSET IdentityKeys,
        d \in {<<>>, Obj({"activationId", "added"}, "constructor", 0)}}

\* the metrics main passes to its n-th call of add() or send()
CallerMetrics(src, n) ==
    {Obj(keys, src, n) : keys \in {{}, {"added"}, {"activationId", "eventType"}}}

\* One activation whose main adds defaults, reads them and sends events before its
\* deadline fires.
NextMetrics ==
    \/ \E o \in MetricsOptions : Activate(1, o)
    \/ \E m \in CallerMetrics("add", ops + 1) : AgentAdd(1, m)
    \/ AgentGet(1)
    \/ \E m \in CallerMetrics("event", ops + 1) : AgentSendMetrics(1, m)
    \/ DeadlineFireMetrics(1)
    \/ Tick
    \/ FlightSteps({"ok"})

SpecMetrics == Init /\ [][NextMetrics]_vars

\* The same, with a main that also writes to the object get() returned.
NextReturned ==
    \/ NextMetrics
    \/ \E k \in {"added", "activationId"} : SetOnReturned(1, k)

SpecReturned == Init /\ [][NextReturned]_vars

(* ------------------------ lib/metrics.js: flatten() --------------------- *)

DEFAULT_MAX_STRING_LENGTH == 100
DEFAULT_ERROR_METRIC_MAX_STRING_LENGTH == 1500
ERROR_METRIC_NAMES == {"message", "errorMessage", "error"}

\* calls of flatten() a program makes on one metrics object
MaxFlattenCalls == 2

\* JavaScript values, each with what typeof, instanceof and Array.isArray() tell
\* apart. A string is its length and whether it ends with the "..." of a cut; a
\* number is the fraction n/d (an integer when d = 1); a bigint is its digits.
Str(len) == [type |-> "string", len |-> len, dots |-> FALSE]
Num(n, d) == [type |-> "number", n |-> n, d |-> d]
Bool(b) == [type |-> "boolean", b |-> b]
BigInt(digits) == [type |-> "bigint", digits |-> digits]
Null == [type |-> "null"]
Undefined == [type |-> "undefined"]
Func == [type |-> "function"]
Symbol == [type |-> "symbol"]
\* own enumerable properties in insertion order
Entry(key, value) == [key |-> key, value |-> value]
Object(entries) == [type |-> "object", entries |-> entries]
MapOf(entries) == [type |-> "map", entries |-> entries]
Array(items) == [type |-> "array", items |-> items]
SetOf(items) == [type |-> "set", items |-> items]
ErrorOf(own, code, message, name) ==
    [type |-> "error", own |-> own, code |-> code, message |-> message, name |-> name]

\* how a call ends: with a value, or with an exception
Returned(v) == [threw |-> "none", value |-> v]
Thrown(e) == [threw |-> e, value |-> <<>>]

\* obj[key] = value
Assign(entries, key, value) ==
    IF \E k \in 1..Len(entries) : entries[k].key = key
    THEN [k \in 1..Len(entries) |->
             IF entries[k].key = key THEN Entry(key, value) ELSE entries[k]]
    ELSE Append(entries, Entry(key, value))

RECURSIVE ObjectAssign(_, _)
\* Object.assign(target, source)
ObjectAssign(target, source) ==
    IF source = <<>> THEN target
    ELSE ObjectAssign(Assign(target, Head(source).key, Head(source).value),
                      Tail(source))

\* what value.length > maxLength looks at: a string's or an array's length
\* (undefined for the other values: the comparison is false)
HasLength(v) == v.type \in {"string", "array"}
LengthOf(v) == IF v.type = "string" THEN v.len ELSE Len(v.items)

\* truncateString(str = "", maxLength): undefined takes the default "", null has
\* no length to read, only a string has substring()
TruncateString(str, maxLength) ==
    CASE str.type = "undefined" -> Returned(Str(0))
      [] str.type = "null" -> Thrown("TypeError")
      [] HasLength(str) /\ LengthOf(str) > maxLength ->
            IF str.type = "string"
            THEN Returned([type |-> "string", dots |-> TRUE,
                           len |-> (IF maxLength > 3 THEN maxLength - 3 ELSE 0) + 3])
            ELSE Thrown("TypeError")
      [] OTHER -> Returned(str)

\* process.env.NEW_RELIC_ERROR_METRIC_MAX_STRING_LENGTH || 1500, read once when
\* the module is loaded
ErrorMetricMaxStringLength ==
    IF called.env = <<>> THEN DEFAULT_ERROR_METRIC_MAX_STRING_LENGTH
    ELSE called.env[1]

\* the maximum length of a string held under key
MaxLength(key) ==
    IF key \in ERROR_METRIC_NAMES THEN ErrorMetricMaxStringLength
    ELSE DEFAULT_MAX_STRING_LENGTH

RECURSIVE MapToObject(_, _)
\* toMetricsObject(obj) of a Map: the entries with string keys, their values
\* through truncateString()
MapToObject(entries, result) ==
    IF entries = <<>> THEN Returned(result)
    ELSE LET key == Head(entries).key
             value == Head(entries).value
         IN  IF key.type = "string"
             THEN LET t == TruncateString(value, MaxLength(key.name))
                  IN  IF t.threw # "none" THEN t
                      ELSE MapToObject(Tail(entries), Assign(result, key.name, t.value))
             ELSE MapToObject(Tail(entries), result)

RECURSIVE Sum(_)
Sum(items) == IF items = <<>> THEN 0 ELSE Head(items).n + Sum(Tail(items))

\* obj.every(Number.isInteger): true of the empty array
EveryInteger(items) ==
    \A k \in 1..Len(items) : items[k].type = "number" /\ items[k].d = 1

\* toMetricsObject(obj) of an array or of Array.from(set): reduce() without an
\* initial value throws on an empty array
ItemsToObject(items) ==
    IF EveryInteger(items)
    THEN IF items = <<>> THEN Thrown("TypeError")
         ELSE Returned(<<Entry("mean", Num(Sum(items), Len(items)))>>)
    ELSE Returned(<<Entry("item", items[1])>>)

\* toMetricsObject(obj): the entries of the object flatten() goes on with
ToMetricsObject(obj) ==
    CASE obj.type = "error" ->
            Returned(Assign(Assign(Assign(obj.own, "code", obj.code),
                                   "message", obj.message), "name", obj.name))
      [] obj.type = "map" -> MapToObject(obj.entries, <<>>)
      [] obj.type \in {"array", "set"} -> ItemsToObject(obj.items)
      [] OTHER -> Returned(obj.entries)

RECURSIVE FlattenFrom(_, _, _, _)
\* flatten(metrics, parentKey): the loop from the k-th entry on, result being
\* what the entries before it gave
FlattenFrom(entries, k, parentKey, result) ==
    IF k > Len(entries) THEN Returned(result)
    ELSE LET key == entries[k].key
             value == entries[k].value
             name == parentKey \o key
             Rest(r) == FlattenFrom(entries, k + 1, parentKey, r)
         IN  CASE value.type = "string" ->
                     Rest(Assign(result, name,
                                 TruncateString(value, MaxLength(key)).value))
               [] value.type = "number" -> Rest(Assign(result, name, value))
               [] value.type = "boolean" ->
                     Rest(Assign(result, name, Num(IF value.b THEN 1 ELSE 0, 1)))
               [] value.type = "bigint" ->
                     Rest(Assign(result, name, Str(value.digits)))
               [] value.type \in {"null", "undefined"} -> Rest(result)
               [] value.type \in {"function", "symbol"} -> Thrown("Error")
               [] OTHER ->
                     LET metrics == ToMetricsObject(value)
                     IN  IF metrics.threw # "none" THEN metrics
                         ELSE LET nested == FlattenFrom(metrics.value, 1,
                                                        name \o "_", <<>>)
                              IN  IF nested.threw # "none" THEN nested
                                  ELSE Rest(ObjectAssign(result, nested.value))

\* Metrics.flatten(metrics)
Flatten(metrics) == FlattenFrom(metrics, 1, "", <<>>)

\* Strings around both limits.
Strings ==
    {Str(0), Str(DEFAULT_MAX_STRING_LENGTH), Str(DEFAULT_MAX_STRING_LENGTH + 1),
     Str(DEFAULT_ERROR_METRIC_MAX_STRING_LENGTH),
     Str(DEFAULT_ERROR_METRIC_MAX_STRING_LENGTH + 1)}

Scalars ==
    Strings \cup {Num(0, 1), Num(3, 1), Num(1, 2), Bool(TRUE), Bool(FALSE),
                  BigInt(3), BigInt(DEFAULT_MAX_STRING_LENGTH + 1), Null, Undefined}

MapKey(name) == [type |-> "string", name |-> name]

\* Objects, maps, sequences, sets and errors holding scalars.
Containers ==
    {Object(<<>>)}
    \cup {Object(<<Entry(k, v)>>) :
             k \in {"message", "size"}, v \in Strings \cup {Num(3, 1), Null}}
    \cup {MapOf(<<>>), MapOf(<<Entry(Num(1, 1), Str(0))>>)}
    \cup {MapOf(<<Entry(MapKey(k), v)>>) :
             k \in {"error", "size"},
             v \in {Str(DEFAULT_MAX_STRING_LENGTH + 1), Num(3, 1), Bool(TRUE),
                    Null, Undefined}}
    \cup {[type |-> c, items |-> items] :
             c \in {"array", "set"},
             items \in {<<>>, <<Num(3, 1)>>, <<Num(3, 1), Num(0, 1)>>,
                        <<Num(1, 2), Num(3, 1)>>,
                        <<Str(DEFAULT_MAX_STRING_LENGTH + 1), Str(0)>>,
                        <<Undefined>>}}
    \cup {ErrorOf(own, code, message, Str(5)) :
             own \in {<<>>, <<Entry("errno", Num(3, 1))>>},
             code \in {Undefined, Str(6)},
             message \in {Str(DEFAULT_MAX_STRING_LENGTH + 1),
                          Str(DEFAULT_ERROR_METRIC_MAX_STRING_LENGTH + 1)}}

\* objects holding objects
Nested ==
    {Object(<<Entry("parent", c)>>) :
        c \in {Object(<<Entry("message", Str(DEFAULT_MAX_STRING_LENGTH + 1))>>),
               Object(<<Entry("size", Num(3, 1))>>),
               MapOf(<<Entry(MapKey("error"), Str(DEFAULT_MAX_STRING_LENGTH + 1))>>),
               Array(<<>>)}}

\* the values the contract of flatten() speaks of, and the two it rejects
Supported == Scalars \cup Containers \cup Nested
Values == Supported \cup {Func, Symbol}

\* The metrics objects given to flatten(): one property, or two.
MetricsObjects ==
    {<<Entry(k, v)>> : k \in {"message", "parent"}, v \in Values}
    \cup {<<Entry("parent", v), Entry("parent_size", Num(0, 1))>> :
             v \in {Object(<<Entry("size", Num(3, 1))>>), Array(<<>>), Func}}

\* NEW_RELIC_ERROR_METRIC_MAX_STRING_LENGTH in the environment: unset, or a number
EnvMaxStringLengths == {<<>>, <<1200>>, <<2>>}

\* const result = Metrics.flatten(metrics), once more on the same object
FlattenCall ==
    /\ Len(called.results) < MaxFlattenCalls
    /\ called' = [called EXCEPT !.results = Append(@, Flatten(called.metrics))]
    /\ UNCHANGED <<queueVars, agentVars, probeVars,
                   pushed, posts, accepted, rejections, uncaught, clock, self, sampler>>

\* Metrics.flatten(result) of a result flatten() returned
FlattenResult ==
    /\ called.results # <<>>
    /\ called.results[1].threw = "none"
    /\ called.again = <<>>
    /\ called' = [called EXCEPT !.again = <<Flatten(called.results[1].value)>>]
    /\ UNCHANGED <<queueVars, agentVars, probeVars,
                   pushed, posts, accepted, rejections, uncaught, clock, self, sampler>>

\* a program that uses flatten() itself on one metrics object
InitFlatten ==
    /\ Loaded("none")
    /\ Unused
    /\ \E m \in MetricsObjects, env \in EnvMaxStringLengths :
          called = [env |-> env, metrics |-> m, results |-> <<>>, again |-> <<>>]

NextFlatten ==
    \/ FlattenCall
    \/ FlattenResult

SpecFlatten == InitFlatten /\ [][NextFlatten]_vars

(* ------------- src/lib/newrelic.js: the agent with its own queue --------- *)

\* calls of send() a program makes on one agent
MaxSelfSends == 2
\* the last tick of the agent's clock
MaxNow == 5
\* options.sendIntervalMsec, and the delay of the action timeout timer
\* (Metrics.timeUntilTimeout() - TIMEOUT_BUFFER), in ticks
SendIntervalMsec == 2
ActionTimeoutDelay == 4

\* new NewRelic(options): with or without URL and API key, sendImmediately and
\* disableActionTimeout
NewSelf(valid, sendImmediately, disableActionTimeout) ==
    [canSendMetrics |-> valid,
     sendImmediately |-> valid /\ sendImmediately,
     sendIntervalMsec |-> SendIntervalMsec,
     actionTimeout |-> IF valid /\ ~disableActionTimeout THEN "armed" ELSE "none",
     queuedMetrics |-> <<>>,
     sendTimeoutId |-> 0,          \* 0: undefined
     timers |-> {},                \* pending setTimeout()s of send(): [id, due]
     ids |-> 0,                    \* timer ids given out
     flushes |-> <<>>,             \* sendQueuedMetrics() calls at an await
     now |-> 0,
     sends |-> 0,
     finished |-> FALSE,           \* activationFinished() has been called
     accepted |-> {},              \* events send() has queued: [id, at]
     posts |-> <<>>]               \* the bodies of the fetch() calls

\* sendQueuedMetrics(self) up to its first await: nothing for an empty queue,
\* else the queue as it is now is flattened into the body of the POST
SendQueuedMetrics(s, owner) ==
    IF s.queuedMetrics = <<>> THEN s
    ELSE [s EXCEPT !.flushes = Append(@, [array |-> s.queuedMetrics,
                                          phase |-> "gzip", owner |-> owner])]

\* clearTimeout(self.actionTimeoutHandlerId)
ClearActionTimeout(s) ==
    [s EXCEPT !.actionTimeout = IF @ = "armed" THEN "cleared" ELSE @]

\* send(eventType, metrics) on s at its time
Sent(s) ==
    LET e == [id |-> Cardinality(s.accepted) + 1, at |-> s.now]
        q == [s EXCEPT !.queuedMetrics = Append(@, e),
                       !.accepted = @ \cup {e}]
    IN  IF ~s.canSendMetrics THEN s
        ELSE IF s.sendImmediately THEN SendQueuedMetrics(q, "send")
        ELSE IF q.sendTimeoutId = 0
             THEN [q EXCEPT !.sendTimeoutId = q.ids + 1,
                            !.ids = @ + 1,
                            !.timers = @ \cup {[id |-> q.ids + 1,
                                                due |-> q.now + q.sendIntervalMsec]}]
             ELSE q

\* main calls agent.send(eventType, metrics)
SelfSend ==
    /\ self.sends < MaxSelfSends
    /\ ~self.finished
    /\ self' = [Sent(self) EXCEPT !.sends = @ + 1]
    /\ UNCHANGED <<queueVars, agentVars, probeVars,
                   pushed, posts, accepted, rejections, uncaught, called, clock, sampler>>

\* main calls agent.activationFinished(): sendQueuedMetrics(), and after it the
\* clearTimeout(); with an empty queue nothing is awaited in between
SelfActivationFinished ==
    /\ ~self.finished
    /\ LET s == SendQueuedMetrics([self EXCEPT !.finished = TRUE], "finished")
       IN  self' = IF self.queuedMetrics = <<>> THEN ClearActionTimeout(s) ELSE s
    /\ UNCHANGED <<queueVars, agentVars, probeVars,
                   pushed, posts, accepted, rejections, uncaught, called, clock, sampler>>

\* the timer of send() runs: () => sendQueuedMetrics(this)
SelfSendTimeout ==
    /\ \E t \in self.timers :
          /\ t.due <= self.now
          /\ self' = SendQueuedMetrics([self EXCEPT !.timers = @ \ {t}], "timer")
    /\ UNCHANGED <<queueVars, agentVars, probeVars,
                   pushed, posts, accepted, rejections, uncaught, called, clock, sampler>>

\* the timer of sendMetricsOnActionTimeout() runs: await self.send("timeout",
\* metrics), then await sendQueuedMetrics(self); send() awaits its own
\* sendQueuedMetrics() when sendImmediately is set, and its finally has emptied
\* the queue by the time the second call looks at it
SelfActionTimeout ==
    /\ self.actionTimeout = "armed"
    /\ ActionTimeoutDelay <= self.now
    /\ LET s == Sent([self EXCEPT !.actionTimeout = "fired"])
       IN  self' = IF self.sendImmediately THEN s
                   ELSE SendQueuedMetrics(s, "timeout")
    /\ UNCHANGED <<queueVars, agentVars, probeVars,
                   pushed, posts, accepted, rejections, uncaught, called, clock, sampler>>

\* gzip() is done: fetch(self.url, {body}) with the array taken before the await
SelfFetch(k) ==
    /\ self.flushes[k].phase = "gzip"
    /\ self' = [self EXCEPT !.flushes[k].phase = "fetch",
                            !.posts = Append(@, self.flushes[k].array)]
    /\ UNCHANGED <<queueVars, agentVars, probeVars,
                   pushed, posts, accepted, rejections, uncaught, called, clock, sampler>>

\* fetch() has settled (the response or the exception decides only what is
\* logged): finally { self.queuedMetrics = []; clearTimeout(self.sendTimeoutId) },
\* and the caller goes on after its await
SelfFinally(k) ==
    /\ self.flushes[k].phase = "fetch"
    /\ LET s == [self EXCEPT
                    !.flushes = SubSeq(@, 1, k - 1) \o SubSeq(@, k + 1, Len(@)),
                    !.queuedMetrics = <<>>,
                    !.timers = {t \in @ : t.id # self.sendTimeoutId}]
       IN  self' = IF self.flushes[k].owner = "finished"
                   THEN ClearActionTimeout(s) ELSE s
    /\ UNCHANGED <<queueVars, agentVars, probeVars,
                   pushed, posts, accepted, rejections, uncaught, called, clock, sampler>>

\* time passes; a timer that is due runs before it does
SelfTick ==
    /\ self.now < MaxNow
    /\ \A t \in self.timers : t.due > self.now
    /\ ~(self.actionTimeout = "armed" /\ ActionTimeoutDelay <= self.now)
    /\ self' = [self EXCEPT !.now = @ + 1]
    /\ UNCHANGED <<queueVars, agentVars, probeVars,
                   pushed, posts, accepted, rejections, uncaught, called, clock, sampler>>

\* one activation that constructs the agent with its own queue
InitSelf ==
    /\ Loaded("none")
    /\ called = "none"
    /\ sampler = <<>>
    /\ \E valid, sendImmediately, disableActionTimeout \in BOOLEAN :
          self = NewSelf(valid, sendImmediately, disableActionTimeout)

NextSelf ==
    \/ SelfSend
    \/ SelfActivationFinished
    \/ SelfSendTimeout
    \/ SelfActionTimeout
    \/ \E k \in 1..Len(self.flushes) : SelfFetch(k)
    \/ \E k \in 1..Len(self.flushes) : SelfFinally(k)
    \/ SelfTick

SpecSelf == InitSelf /\ [][NextSelf]_vars

(* -------------- lib/probe/http-client.js: getRequestMetrics() ------------ *)

\* a port as a caller gives it: a number, or a string of digits
PortNumber(n) == [type |-> "number", n |-> n]
PortString(n) == [type |-> "string", n |-> n]

\* The options of a request, <<>> for a property that is not set: protocol, href
\* (what it starts with), port and defaultPort.
HttpOptions ==
    [protocol : {<<>>, <<"http:">>, <<"https:">>},
     href : {<<>>, <<"http:">>, <<"https:">>},
     port : {<<>>, <<PortNumber(80)>>, <<PortNumber(443)>>, <<PortNumber(8080)>>,
             <<PortString(80)>>, <<PortString(443)>>},
     defaultPort : {<<>>, <<PortNumber(80)>>, <<PortNumber(443)>>}]

\* getRequestMetrics(): protocol and port of the record, and the port written in
\* its url (<<>> when the url leaves it out)
GetRequestMetrics(opts) ==
    LET protocol == IF opts.protocol # <<>> THEN opts.protocol[1]
                    ELSE IF opts.href # <<>> /\ opts.href[1] = "https:" THEN "https:"
                    ELSE "http:"
        port == IF opts.port # <<>> THEN opts.port[1]
                ELSE IF opts.defaultPort # <<>> THEN opts.defaultPort[1]
                ELSE IF opts.protocol = <<>> \/ opts.protocol[1] = "http:"
                     THEN PortNumber(80)
                     ELSE PortNumber(443)
        portForUrl == IF \/ port = PortNumber(80) /\ protocol = "http:"
                         \/ port = PortNumber(443) /\ protocol = "https:"
                      THEN <<>> ELSE <<port>>
    IN  [protocol |-> protocol, port |-> port, portForUrl |-> portForUrl]

\* triggerMetrics() builds the record of a request made with the options
RequestMetricsCall ==
    /\ called.metrics = <<>>
    /\ called' = [called EXCEPT !.metrics = <<GetRequestMetrics(called.opts)>>]
    /\ UNCHANGED <<queueVars, agentVars, probeVars,
                   pushed, posts, accepted, rejections, uncaught, clock, self, sampler>>

\* one request, made with any of the options
InitRequestMetrics ==
    /\ Loaded("none")
    /\ Unused
    /\ \E opts \in HttpOptions : called = [opts |-> opts, metrics |-> <<>>]

NextRequestMetrics == RequestMetricsCall

SpecRequestMetrics == InitRequestMetrics /\ [][NextRequestMetrics]_vars

(* ------------------ lib/metrics.js: timeUntilTimeout() ------------------ *)

DEFAULT_METRIC_TIMEOUT_MS == 60000
TIMEOUT_BUFFER == 5000

\* the clock Date.now() reads moves in steps of StepMs, at most MaxSteps of them;
\* a deadline lies on one of them
StepMs == 2500
MaxSteps == 4
Times == {k * StepMs : k \in 0..MaxSteps}

\* __OW_DEADLINE in the environment: not set (<<>>), or a time
Deadlines == {<<>>} \cup {<<t>> : t \in Times}

\* timeUntilTimeout() at time now: (process.env.__OW_DEADLINE - Date.now()) ||
\* DEFAULT_METRIC_TIMEOUT_MS; the difference is NaN without a deadline, and NaN
\* and 0 are falsy
TimeUntilTimeout(deadline, now) ==
    IF deadline = <<>> \/ deadline[1] - now = 0
    THEN DEFAULT_METRIC_TIMEOUT_MS
    ELSE deadline[1] - now

\* a program calls Metrics.timeUntilTimeout()
TimeUntilTimeoutCall ==
    /\ called.result = <<>>
    /\ called' = [called EXCEPT !.result =
                     <<[at |-> called.now,
                        value |-> TimeUntilTimeout(called.deadline, called.now)]>>]
    /\ UNCHANGED <<queueVars, agentVars, probeVars,
                   pushed, posts, accepted, rejections, uncaught, clock, self, sampler>>

\* sendMetricsOnActionTimeout(): const timeout = Metrics.timeUntilTimeout(), and
\* setTimeout(handler, Metrics.timeUntilTimeout() - TIMEOUT_BUFFER)
SendMetricsOnActionTimeout ==
    /\ called.timer = <<>>
    /\ called' = [called EXCEPT !.timer =
                     <<[at |-> called.now,
                        timeout |-> TimeUntilTimeout(called.deadline, called.now),
                        delay |-> TimeUntilTimeout(called.deadline, called.now)
                                  - TIMEOUT_BUFFER]>>]
    /\ UNCHANGED <<queueVars, agentVars, probeVars,
                   pushed, posts, accepted, rejections, uncaught, clock, self, sampler>>

\* Date.now() moves on
DateAdvances ==
    /\ called.now < MaxSteps * StepMs
    /\ called' = [called EXCEPT !.now = @ + StepMs]
    /\ UNCHANGED <<queueVars, agentVars, probeVars,
                   pushed, posts, accepted, rejections, uncaught, clock, self, sampler>>

\* an activation with any deadline, or none, in its environment
InitDeadline ==
    /\ Loaded("none")
    /\ Unused
    /\ \E deadline \in Deadlines :
          called = [deadline |-> deadline, now |-> 0, result |-> <<>>, timer |-> <<>>]

NextDeadline ==
    \/ TimeUntilTimeoutCall
    \/ SendMetricsOnActionTimeout
    \/ DateAdvances

SpecDeadline == InitDeadline /\ [][NextDeadline]_vars

(* ----------------------------- lib/sampler.js --------------------------- *)

\* the last tick of the sampler's clock, and the calls of sample() a program makes
MaxSamplerNow == 4
MaxSamples == 2

\* intervalTimeout given to the constructor, in ticks; 0 asks for no interval
IntervalTimeouts == {0, 1, 2}

\* this.interval = intervalTimeout || 100
DEFAULT_INTERVAL == 100
IntervalOr(intervalTimeout) ==
    IF intervalTimeout = 0 THEN DEFAULT_INTERVAL ELSE intervalTimeout

\* new Sampler(sampleFunction, intervalTimeout): interval() of interval-promise
\* is called only if (this.interval === 0)
NewSampler(intervalTimeout) ==
    [intervalTimeout |-> intervalTimeout,
     interval |-> IntervalOr(intervalTimeout),
     samples |-> <<>>,             \* [by, at]: who took the sample, and when
     stopInterval |-> FALSE,
     \* this.intervalPromise is pending: the interval runs, next at `due`
     running |-> IntervalOr(intervalTimeout) = 0,
     due |-> IntervalOr(intervalTimeout),
     now |-> 0,
     finish |-> "none",            \* finish(): "none", "waiting", "resolved", "rejected"
     summary |-> <<>>]             \* what finish() settled with

\* module.exports of lib/metrics.js
MetricsExports == {"timestamp", "openwhisk", "flatten", "timeUntilTimeout"}

\* Metrics.summary(samples): the statistics of the samples, which are told apart
\* here by the samples they are computed from; a TypeError when lib/metrics.js
\* exports no summary
Summary(samples) ==
    IF "summary" \in MetricsExports
    THEN [type |-> "returned", value |-> samples]
    ELSE [type |-> "thrown", error |-> "TypeError"]

\* finish() settles with what Metrics.summary() returned or threw
Settled(s) ==
    [s EXCEPT !.finish = IF Summary(s.samples).type = "returned"
                         THEN "resolved" ELSE "rejected",
              !.summary = <<Summary(s.samples)>>]

\* sample(): this.samples.push(await this.sampleFunction())
Sampled(s, by) == [s EXCEPT !.samples = Append(@, [by |-> by, at |-> s.now])]

\* a program calls sampler.sample()
SamplerSample ==
    /\ sampler.finish = "none"
    /\ Cardinality({k \in 1..Len(sampler.samples) :
                       sampler.samples[k].by = "sample"}) < MaxSamples
    /\ sampler' = Sampled(sampler, "sample")
    /\ UNCHANGED <<queueVars, agentVars, probeVars,
                   pushed, posts, accepted, rejections, uncaught, called, clock, self>>

\* a program calls sampler.finish(): this.stopInterval = true; await
\* this.intervalPromise; return Metrics.summary(this.samples)
SamplerFinish ==
    /\ sampler.finish = "none"
    /\ sampler' = IF sampler.running
                  THEN [sampler EXCEPT !.stopInterval = TRUE, !.finish = "waiting"]
                  ELSE Settled([sampler EXCEPT !.stopInterval = TRUE])
    /\ UNCHANGED <<queueVars, agentVars, probeVars,
                   pushed, posts, accepted, rejections, uncaught, called, clock, self>>

\* the callback given to interval(): stop() once stopInterval is set, which
\* resolves intervalPromise and lets finish() go on; a sample otherwise, and the
\* next iteration an interval later
Iteration(s) ==
    IF s.stopInterval
    THEN IF s.finish = "waiting"
         THEN Settled([s EXCEPT !.running = FALSE])
         ELSE [s EXCEPT !.running = FALSE]
    ELSE [Sampled(s, "interval") EXCEPT !.due = s.now + s.interval]

\* a turn of the event loop: the iteration of a running interval that is due, or
\* else time passing
SamplerTurn ==
    /\ IF sampler.running /\ sampler.due <= sampler.now
       THEN sampler' = Iteration(sampler)
       ELSE /\ sampler.now < MaxSamplerNow
            /\ sampler' = [sampler EXCEPT !.now = @ + 1]
    /\ UNCHANGED <<queueVars, agentVars, probeVars,
                   pushed, posts, accepted, rejections, uncaught, called, clock, self>>

\* a program that constructs one sampler
InitSampler ==
    /\ Loaded("none")
    /\ called = "none"
    /\ self = <<>>
    /\ \E intervalTimeout \in IntervalTimeouts : sampler = NewSampler(intervalTimeout)

NextSampler ==
    \/ SamplerSample
    \/ SamplerFinish
    \/ SamplerTurn

SpecSampler == InitSampler /\ [][NextSampler]_vars

(* ------------------------------ properties ----------------------------- *)

RECURSIVE SumOver(_, _)
\* the sum of f[x] for x in S
SumOver(f, S) ==
    IF S = {} THEN 0
    ELSE LET x == CHOOSE y \in S : TRUE IN f[x] + SumOver(f, S \ {x})

\* how often event e occurs in the sequence s
Occurs(e, s) == Cardinality({k \in 1..Len(s) : s[k] = e})

\* the fetch() calls whose body carried event e
TimesPosted(e) ==
    SumOver([p \in BagToSet(posts) |-> CopiesIn(p, posts) * Occurs(e, p.batch)],
            BagToSet(posts))

\* the places from which event e will still be sent: the queue, and the batches of
\* invocations that have not called fetch() yet
TimesPending(e) ==
    Occurs(e, queue)
    + SumOver([k \in 1..Len(flights) |->
                  IF flights[k].phase = "gzip" THEN Occurs(e, flights[k].batch) ELSE 0],
              1..Len(flights))

\* event e was in the body of some fetch() call
Posted(e) == \E p \in BagToSet(posts) : Occurs(e, p.batch) > 0

\* the POST of batch b has ended and the endpoint has not accepted it
Failed(b) ==
    /\ \E p \in BagToSet(posts) : p.batch = b
    /\ ~BagIn(b, accepted)
    /\ \A k \in 1..Len(flights) : flights[k].batch # b

\* the events the probe's record of request r made
HttpEventsOf(r) == {e \in pushed : e.src = "http" /\ e.r = r}

\* the events the deadline timer of activation i made
DeadlineEvents(i) == {e \in pushed : e.a = i /\ e.src = "deadline"}

\* the User-Agent of the ingest POSTs, as a request header
IngestUA == Header(FALSE, <<USER_AGENT>>)

\* C1: for every observed request the metrics callback is invoked at most once,
\* whichever of "end", "error" and "timeout" the request emits and in whichever
\* order. The code sets metricsTriggered only after the callback has returned:
\* a callback that throws is invoked again by the next event.
C1_CallbackAtMostOnce ==
    \A r \in 1..Len(reqs) : reqs[r].cbCalls <= 1

\* C2: a request whose User-Agent equals the ingest user-agent, and so every POST
\* of the send queue, never has the callback invoked for it and never makes an
\* event, also when the flush runs in an activation's context with the probe
\* installed.
C2_IngestRequestsIgnored ==
    \A r \in 1..Len(reqs) :
        (reqs[r].post \/ reqs[r].ua = IngestUA) =>
            /\ reqs[r].cbCalls = 0
            /\ HttpEventsOf(r) = {}

\* a POST has been made from a flush running in an activation's context while the
\* probe is installed, and a request of main with the ingest user-agent has ended
C2_Witness ==
    /\ \A m \in Modules : probe[m].request = <<"newrelic">>
    /\ \E k \in 1..Len(flights) :
           /\ flights[k].phase = "post"
           /\ flights[k].scope # NoScope
           /\ ClsGet(flights[k].scope) # 0
    /\ \E r \in 1..Len(reqs) : reqs[r].ua = IngestUA /\ reqs[r].ended

\* the requests of activation i for which the probe has emitted its record
Triggered(i) == {r \in 1..Len(reqs) : reqs[r].scope = i /\ reqs[r].triggered}

\* the events activation i has caused: its send() calls and its observed requests
Caused(i) == agent[i].nsend + Cardinality(Triggered(i))

\* the events tagged with activation i in the batches the endpoint accepted
Delivered(i) ==
    SumOver([b \in BagToSet(accepted) |->
                CopiesIn(b, accepted) * Cardinality({k \in 1..Len(b) : b[k].a = i})],
            BagToSet(accepted))

\* C3: with concurrent activations, every http event carries the activationId of
\* the activation whose main made the request, every record makes exactly one
\* event, and once everything is sent the endpoint holds, for each activation,
\* exactly as many events tagged with it as it has caused.
C3_ActivationsIsolated ==
    /\ \A e \in pushed : e.src = "http" => e.a = reqs[e.r].scope
    /\ \A r \in 1..Len(reqs) :
           Cardinality(HttpEventsOf(r)) = IF reqs[r].triggered THEN 1 ELSE 0
    /\ (queue = <<>> /\ flights = <<>>) =>
           \A i \in Activations : Delivered(i) = Caused(i)

\* every activation has had a request observed while the others were running, and
\* all events have arrived
C3_Witness ==
    /\ queue = <<>> /\ flights = <<>>
    /\ \A i \in Activations : Triggered(i) # {} /\ Delivered(i) >= 1
    /\ \E r1, r2 \in 1..Len(reqs) :
           /\ r1 < r2 /\ reqs[r1].scope # reqs[r2].scope
           /\ reqs[r1].first = "end" /\ reqs[r2].first = "error"

\* C4: an agent never has more than one event of its deadline timer, and once
\* the timer's handler has run it has exactly one, of type "timeout", whatever
\* send() and activationFinished() calls follow.
C4_ExactlyOneTimeoutEvent ==
    \A i \in Activations :
        /\ Cardinality(DeadlineEvents(i)) <= 1
        /\ agent[i].handler # "none" =>
               /\ Cardinality(DeadlineEvents(i)) = 1
               /\ \A e \in DeadlineEvents(i) : e.type = "timeout"

\* the timer has fired, and a send() and an activationFinished() have followed
C4_Witness ==
    \E i \in Activations : \E e \in DeadlineEvents(i) : \E e2 \in pushed :
        /\ e2.a = i /\ e2.src = "send" /\ e2.i > e.i
        /\ agent[i].fin >= 1

\* C5: when the handler of the deadline timer has returned from its awaited
\* send, the timeout event and every event that was queued before it have been
\* in the body of a fetch() call (stated for events Metrics.flatten() accepts).
C5_AllPostedWhenHandlerReturns ==
    \A i \in Activations :
        (agent[i].handler = "resolved" /\ Flattens(agent[i].snap)) =>
            \A k \in 1..Len(agent[i].snap) : Posted(agent[i].snap[k])

\* C6: once activationFinished() has been called with the timer not yet fired,
\* the handler never runs and the agent never has a deadline event; a further
\* call of activationFinished() changes nothing but the count of calls.
C6_FinishedCancelsTimer ==
    [][\A i \in Activations :
          /\ (agent[i].fin >= 1 /\ agent[i].handler = "none") =>
                 /\ agent'[i].handler = "none"
                 /\ {e \in pushed' : e.a = i /\ e.src = "deadline"} = {}
          /\ (agent[i].fin >= 1 /\ agent'[i].fin = agent[i].fin + 1) =>
                 /\ agent' = [agent EXCEPT ![i].fin = @ + 1]
                 /\ UNCHANGED <<queueVars, cls, probeVars, worldVars>>
      ]_vars

\* activationFinished() has been called twice on an agent whose timer was pending
C6_Witness ==
    \E i \in Activations :
        agent[i].pc = "run" /\ agent[i].fin = 2 /\ agent[i].timer = "cleared"

\* C7: every event is in at most one place from which it is or will be sent: the
\* queue, a batch waiting for fetch(), or the body of one fetch() call. So no
\* event is in two POSTs, after a failed POST or with flushes overlapping.
C7_PostedAtMostOnce ==
    \A e \in pushed : TimesPosted(e) + TimesPending(e) <= 1

\* one POST has failed while two later ones are in the air together
C7_Witness ==
    /\ \E p \in BagToSet(posts) : Failed(p.batch)
    /\ \E k1, k2 \in 1..Len(flights) :
           k1 # k2 /\ flights[k1].phase = "post" /\ flights[k2].phase = "post"

\* this step calls sendQueue() and the call gets as far as its first await
Flushes == Len(flights') = Len(flights) + 1

\* the invocation this step has suspended
NewFlight == flights'[Len(flights')]

\* the length of the queue that call of sendQueue() found
Found == Len(queue) + Cardinality(pushed' \ pushed)

\* the setImmediate() calls of this step
Chained ==
    Len(immediates') - Len(immediates)
    + (IF NewFlight.owner.kind = "chain" THEN 1 ELSE 0)

\* nothing is queued, scheduled or waiting for fetch()
Quiet ==
    /\ queue = <<>>
    /\ immediates = <<>>
    /\ \A k \in 1..Len(flights) : flights[k].phase = "post"

\* the lengths of the bodies of the fetch() calls
PostLengths == {Len(p.batch) : p \in BagToSet(posts)}

\* what flushing exactly MAX_EVENTS, and MAX_EVENTS + 1, events has come to
FlushedInBatches ==
    (Quiet /\ \A e \in pushed : e.ok) =>
        /\ Cardinality(pushed) = MAX_EVENTS =>
               BagCardinality(posts) = 1 /\ PostLengths = {MAX_EVENTS}
        /\ Cardinality(pushed) = MAX_EVENTS + 1 =>
               BagCardinality(posts) = 2 /\ PostLengths = {MAX_EVENTS, 1}

\* C8: no fetch() body has more than MAX_EVENTS events; a flush takes
\* min(length, MAX_EVENTS) events and chains one more flush exactly when events
\* remain; MAX_EVENTS events end up in one POST, MAX_EVENTS + 1 in two POSTs of
\* MAX_EVENTS and 1.
C8_BatchesOfAtMostFifty ==
    [][/\ \A p \in BagToSet(posts') : Len(p.batch) <= MAX_EVENTS
       /\ Flushes =>
              /\ Len(NewFlight.batch) = Min(Found, MAX_EVENTS)
              /\ Len(queue') = Found - Len(NewFlight.batch)
              /\ Chained = IF Found > MAX_EVENTS THEN 1 ELSE 0
       /\ FlushedInBatches'
      ]_vars

\* MAX_EVENTS + 1 events have gone out, the last one by the chained flush
C8_Witness ==
    /\ Quiet
    /\ Cardinality(pushed) = MAX_EVENTS + 1
    /\ PostLengths = {MAX_EVENTS, 1}
    /\ \E k \in 1..Len(flights) :
           flights[k].owner.kind = "chain" /\ Len(flights[k].batch) = 1

\* the events of one caller are in s in the order of the calls
CallOrder(s) ==
    \A k, m \in 1..Len(s) : (k < m /\ s[k].a = s[m].a) => s[k].i < s[m].i

\* C9: a step appends what it enqueues to the tail of the queue and takes what
\* it sends from the head, in queue order; the queue and every fetch() body hold
\* the events of one caller in the order of its calls.
C9_HeadFirstInOrder ==
    [][LET new == pushed' \ pushed
           all == queue \o (IF new = {} THEN <<>> ELSE <<CHOOSE e \in new : TRUE>>)
           n   == Len(all) - Len(queue')
       IN  /\ Cardinality(new) <= 1
           /\ \A e \in new : e.i = agent[e.a].enq + 1
           /\ n >= 0
           /\ queue' = SubSeq(all, n + 1, Len(all))
           /\ Flushes => NewFlight.batch = SubSeq(all, 1, n)
           /\ CallOrder(queue')
           /\ \A p \in BagToSet(posts') : CallOrder(p.batch)
      ]_vars

\* one fetch() body carries two send() events of the same agent
C9_Witness ==
    \E p \in BagToSet(posts) : \E k, m \in 1..Len(p.batch) :
        /\ k < m
        /\ p.batch[k].a = p.batch[m].a
        /\ p.batch[k].src = "send" /\ p.batch[m].src = "send"
        /\ p.batch[k].a = 1

\* C10: no caller of sendQueue() - send() with immediate, the tick, the deadline
\* handler, the chained flush - ever gets a rejected promise, whatever the
\* endpoint answers.
C10_FlushNeverThrows ==
    rejections = {}

\* the POST that carried the timeout event has failed and the deadline handler
\* has returned; a POST ending with a send() event has failed and its agent runs on
C10_Witness ==
    /\ \E i \in Activations : \E e \in DeadlineEvents(i) : \E p \in BagToSet(posts) :
           agent[i].handler = "resolved" /\ Occurs(e, p.batch) > 0 /\ Failed(p.batch)
    /\ \E p \in BagToSet(posts) :
           /\ Failed(p.batch)
           /\ p.batch[Len(p.batch)].src = "send"
           /\ agent[p.batch[Len(p.batch)].a].pc = "run"

\* C11: when stop() has returned the queue is empty and no interval timer is
\* left, and none appears before the next start(), whatever start(), send() and
\* stop() calls came before. The code empties the queue only inside
\* if (sendTimer): events sent while no timer is held survive stop().
C11_StopEmptiesQueue ==
    [][/\ (called' = "stop" /\ ops' = ops + 1) =>
              (queue' = <<>> /\ intervals' = {} /\ ~sendTimer'.on)
       /\ (called = "stop" /\ ~(called' = "start" /\ ops' = ops + 1)) =>
              intervals' = {}
      ]_vars

\* C12: every POST goes to the URL and carries the API key of the start() that
\* created the timer, also after another agent has been constructed with other
\* ones. The code stores url and apiKey on every call of start().
C12_FirstEndpointKept ==
    sendTimer.on =>
        \A p \in BagToSet(posts) :
            /\ p.url = UrlOf(sendTimer.scope)
            /\ p.key = KeyOf(sendTimer.scope)

\* C13: the runtime never holds more than one interval timer of the queue, and it
\* is the one the handle names; a step that leaves the queue started leaves the
\* timer as it is, with the interval and the context of the start() that made it.
C13_OneFlushTimer ==
    [][/\ Cardinality(intervals') <= 1
       /\ intervals' = IF sendTimer'.on
                       THEN {[scope |-> sendTimer'.scope,
                              interval |-> sendTimer'.interval]}
                       ELSE {}
       /\ (sendTimer.on /\ sendTimer'.on) =>
              (sendTimer' = sendTimer /\ intervals' = intervals)
      ]_vars

\* start() has been called again, with another URL and another interval, while
\* the timer was running
C13_Witness ==
    /\ sendTimer.on
    /\ called = "start"
    /\ ops >= 2
    /\ endpoint.url # UrlOf(sendTimer.interval)
    /\ Cardinality(intervals) = 1

\* C14: when the promise of send(.., true) has resolved, the POST that carries
\* the event has been made and has ended (stated for runs in which
\* Metrics.flatten() accepts every event). The code awaits one sendQueue() call,
\* and that call sends the first MAX_EVENTS events of the queue only.
C14_ImmediateSendCompleted ==
    \A i \in Activations :
        (agent[i].imm # <<>> /\ agent[i].pc = "run" /\ \A e \in pushed : e.ok) =>
            /\ Posted(agent[i].imm[1])
            /\ \A k \in 1..Len(flights) : Occurs(agent[i].imm[1], flights[k].batch) = 0

\* a value that is a string with a character that is not white space
NotBlank(v) == v.type = "string" /\ \E k \in 1..Len(v.chars) : v.chars[k] # " "

\* the options the constructor was given are none, or lack a usable URL or key
Unusable(c) == ~c.present \/ ~NotBlank(c.url) \/ ~NotBlank(c.key)

\* the agents constructed so far
Constructed == {i \in Activations : agent[i].pc # "new"}

\* C15: an agent constructed without options, or with a blank or non-string URL
\* or API key, is disabled: it is not registered for its activation, has no
\* deadline timer, none of its send() calls enqueues an event or is rejected, and
\* as long as only such agents exist the send queue has not been started.
C15_UnusableOptionsDisable ==
    /\ \A i \in Constructed :
           Unusable(agent[i].opts.given) =>
               /\ ~agent[i].canSend
               /\ agent[i].timer = "unset" /\ agent[i].handler = "none"
               /\ agent[i].enq = 0 /\ agent[i].pc = "run"
               /\ cls[i] = 0
               /\ \A e \in pushed : e.a # i
    /\ (\A i \in Constructed : Unusable(agent[i].opts.given)) =>
           /\ ~sendTimer.on /\ intervals = {}
           /\ endpoint = [url |-> 0, apiKey |-> 0]
           /\ queue = <<>> /\ flights = <<>>
    /\ rejections = {}

\* an agent given a string of white space as its URL has had send() called, next
\* to an enabled agent that has started the queue and enqueued an event
C15_Witness ==
    \E i, j \in Constructed :
        /\ agent[i].opts.given.present
        /\ agent[i].opts.given.url = Value("string", <<" ">>)
        /\ agent[i].nsend >= 1
        /\ agent[j].canSend /\ sendTimer.on
        /\ \E e \in pushed : e.a = j


\* the places of the objects of srcs that have key k, and the object that wins it
Holders(k, srcs) == {j \in 1..Len(srcs) : k \in DOMAIN srcs[j]}
Last(S) == CHOOSE j \in S : \A h \in S : h <= j
\* srcs resolved by priority: every key of any object, with the value of the last
\* object that has it
Resolved(srcs) ==
    [k \in UNION {DOMAIN srcs[j] : j \in 1..Len(srcs)} |->
        srcs[Last(Holders(k, srcs))][k]]
\* the events a step enqueues
Enqueued == pushed' \ pushed

\* C16: send(type, event) enqueues {eventType: type, timestamp: now}, the env-derived
\* attributes, the constructor's defaults, the objects given to add() in the order
\* of the calls and the caller's event, resolved by priority: for every key the
\* value of the last of these that has it.
C16_LaterSourcesOverride ==
    [][\A e \in Enqueued :
          e.src = "send" =>
              e.m = Resolved(<<[eventType |-> Val(e.type, ops'),
                                timestamp |-> Val("now", ops')]>>
                             \o agent[e.a].sources \o <<e.given>>)
      ]_vars

\* the caller's activationId has beaten the one set by add(), by the constructor
\* and by the environment, next to an added key that has beaten the constructor's
C16_Witness ==
    \E e \in pushed :
        /\ e.src = "send"
        /\ "activationId" \in DOMAIN e.given
        /\ Len(agent[e.a].sources) >= 3
        /\ \A j \in 1..3 : "activationId" \in DOMAIN agent[e.a].sources[j]
        /\ agent[e.a].sources[1]["activationId"].src = "env"
        /\ agent[e.a].sources[2]["activationId"].src = "constructor"
        /\ agent[e.a].sources[3]["activationId"].src = "add"
        /\ agent[e.a].sources[3]["activationId"].at < e.m["timestamp"].at
        /\ e.m["activationId"] = e.given["activationId"]
        /\ \E s \in pushed :
              /\ s.a = e.a
              /\ "added" \notin DOMAIN s.given
              /\ "added" \in DOMAIN s.m
              /\ s.m["added"].src = "add"


\* the events that are on the send queue or have been taken from it
OnQueue ==
    Range(queue) \cup UNION {Range(flights[k].batch) : k \in 1..Len(flights)}
                 \cup UNION {Range(p.batch) : p \in BagToSet(posts)}

\* C17: every event placed on the send queue has the keys eventType and timestamp
\* and the key of every identity attribute the environment had when its agent was
\* constructed, whatever was given to add() and send().
C17_IdentityKeysCarried ==
    \A e \in pushed \cup OnQueue :
        {"eventType", "timestamp"} \cup agent[e.a].opts.env \subseteq DOMAIN e.m

\* an event on the queue of an agent constructed in an environment with an
\* activation id, after an add() and with caller attributes that name the
\* activation id and the event type themselves
C17_Witness ==
    \E k \in 1..Len(queue) :
        LET e == queue[k] IN
        /\ agent[e.a].opts.env = {"activationId"}
        /\ Len(agent[e.a].sources) >= 3
        /\ {"activationId", "eventType"} \subseteq DOMAIN e.given
        /\ e.m["eventType"] = e.given["eventType"]
        /\ \E s \in pushed : s.a = e.a /\ s.i < e.i /\ s.m["activationId"].src = "add"


\* the objects given to add() of agent i so far, after the two of its constructor
Added(i) == SubSeq(agent[i].sources, 3, Len(agent[i].sources))

\* C18: add() changes no event that is already enqueued, in flight or posted; an
\* event is posted with the content it was enqueued with, which holds nothing
\* written after its send(); and every event enqueued after an add(), the
\* deadline's timeout event included, has every key of the added object, with
\* the added value unless a later add() or the caller's own metrics name the key.
C18_AddAffectsLaterEventsOnly ==
    [][/\ (\E i \in Activations : Len(agent'[i].sources) > Len(agent[i].sources)
                                 /\ agent[i].pc # "new")
          => UNCHANGED <<queue, flights, posts, pushed>>
       /\ OnQueue' \subseteq pushed'
       /\ \A e \in pushed' : \A k \in DOMAIN e.m : e.m[k].at <= e.m["timestamp"].at
       /\ \A e \in Enqueued :
             \A j \in 1..Len(Added(e.a)) : \A k \in DOMAIN Added(e.a)[j] :
                 /\ k \in DOMAIN e.m
                 /\ (/\ k \notin DOMAIN e.given
                     /\ \A h \in (j + 1)..Len(Added(e.a)) : k \notin DOMAIN Added(e.a)[h])
                    => e.m[k] = Added(e.a)[j][k]
      ]_vars

\* one POST carries an event sent before an add() without the added value and
\* the timeout event of the deadline with it
C18_Witness ==
    \E p \in BagToSet(posts) : \E e \in Range(p.batch), t \in Range(p.batch) :
        /\ e.src = "send" /\ t.src = "deadline" /\ e.a = t.a
        /\ "added" \in DOMAIN t.m
        /\ t.m["added"].src = "add"
        /\ t.m["added"].at > e.m["timestamp"].at
        /\ \A k \in DOMAIN e.m : e.m[k].src # "add"


\* C19: what get() returned is a snapshot. A step that is no add() leaves the
\* defaults of every agent as they are, so a write to the returned object does
\* not reach the events sent later; and an add() leaves the object that get()
\* returned earlier as it is.
C19_GetReturnsSnapshot ==
    [][\A i \in Activations :
          agent[i].pc # "new" =>
              /\ agent'[i].sources = agent[i].sources
                    => agent'[i].objs[agent'[i].defaultMetrics] = Defaults(i)
              /\ (agent[i].got # 0 /\ agent'[i].sources # agent[i].sources)
                    => agent'[i].objs[agent[i].got] = agent[i].objs[agent[i].got]
      ]_vars


\* C20: an observed request whose first terminal event is an error or a timeout
\* has exactly one record: error = true with the message and the code of that
\* error, or "Connection timed out" and 110 for the timeout; no later event of
\* the request adds a record. A callback that throws on the first event is called
\* again, with the record of the later event.
C20_OneErrorRecord ==
    \A r \in 1..Len(reqs) :
        reqs[r].first \in {"error", "timeout"} =>
            /\ Len(reqs[r].records) = 1
            /\ reqs[r].cbCalls = 1
            /\ reqs[r].records[1].error
            /\ reqs[r].first = "timeout" =>
                  /\ reqs[r].records[1].errorMessage = "Connection timed out"
                  /\ reqs[r].records[1].errorCode = "110"
            /\ reqs[r].first = "error" =>
                  /\ reqs[r].records[1].errorMessage = reqs[r].err[1].message
                  /\ reqs[r].records[1].errorCode = reqs[r].err[1].code


\* the probe is installed: both modules hold a saved original
Installed == \A m \in Modules : IsWrapped(probe[m])
\* a step is a call of start(), of stop()
StartStep == ops' = ops + 1 /\ called' \in Callbacks
StopStep == ops' = ops + 1 /\ called' = "stop"
\* the requests a step issues
Issued == {r \in 1..Len(reqs') : r > Len(reqs)}

\* C21: a start() while the probe is installed changes nothing; request() never
\* has more than one wrapper around node's function; and a request issued while
\* the probe is installed has one record object, whose callback is the one of
\* the start() that installed the probe.
C21_StartIdempotentFirstWins ==
    [][/\ (Installed /\ StartStep) => probe' = probe
       /\ (~Installed /\ StartStep) => \A m \in Modules : probe'[m].request = <<called'>>
       /\ \A m \in Modules : Len(probe'[m].request) <= 1
       /\ \A r \in Issued :
             /\ reqs'[r].wrappers <= 1
             /\ Installed => \A m \in Modules : reqs'[r].cb = probe[m].request[1]
      ]_vars

\* a request issued after a second start(), with a callback of its own, has given
\* its one record to the callback of the first start()
C21_Witness ==
    \E r \in 1..Len(reqs) :
        /\ reqs[r].after \in Callbacks
        /\ reqs[r].cb \in Callbacks \ {reqs[r].after}
        /\ reqs[r].wrappers = 1
        /\ reqs[r].cbCalls = 1


\* C22: stop() leaves both modules with node's own request function and without a
\* saved original, whatever calls of start() and stop() came before; a stop()
\* after a stop() changes nothing; and the start(cb) after it installs cb.
C22_StopRestoresOriginals ==
    [][/\ StopStep => probe' = [m \in Modules |-> Unwrapped]
       /\ (StopStep /\ called = "stop") => probe' = probe
       /\ (StartStep /\ called = "stop") =>
             probe' = [m \in Modules |->
                          [request |-> <<called'>>, original |-> <<Original>>]]
      ]_vars

\* the probe was started with one callback, stopped and started with the other
\* callback: requests issued before and after have reported to the callback of
\* their time
C22_Witness ==
    /\ called \in Callbacks
    /\ \A m \in Modules : probe[m].request = <<called>>
    /\ \E r \in 1..Len(reqs) :
          /\ reqs[r].cb \in Callbacks \ {called}
          /\ reqs[r].cbCalls = 1
    /\ \E r \in 1..Len(reqs) :
          /\ reqs[r].after = called
          /\ reqs[r].cb = called
          /\ reqs[r].cbCalls = 1


\* C23: a request issued while the probe was not installed, before any start()
\* or after a stop(), is not observed and never has a record. A request issued
\* while it was installed is observed, and once its response has ended or it has
\* emitted an error it has given its record to a callback given to start(),
\* whether or not the probe has been stopped in the meantime.
C23_InFlightRecordsSurviveStop ==
    \A r \in 1..Len(reqs) :
        /\ reqs[r].after \notin Callbacks =>
              /\ ~reqs[r].observed
              /\ reqs[r].cbCalls = 0
              /\ reqs[r].records = <<>>
        /\ reqs[r].after \in Callbacks =>
              /\ reqs[r].observed
              /\ reqs[r].cb \in Callbacks
              /\ (reqs[r].ended \/ ~reqs[r].errListener) =>
                    /\ reqs[r].cbCalls >= 1
                    /\ Len(reqs[r].records) >= 1

\* a request issued while the probe was installed has given its record after the
\* stop(), and a request issued after the stop() has ended without one
C23_Witness ==
    /\ \E r \in 1..Len(reqs) :
          /\ reqs[r].after \in Callbacks
          /\ reqs[r].emittedAfter = <<"stop">>
          /\ reqs[r].ended
          /\ reqs[r].cbCalls = 1
    /\ \E r \in 1..Len(reqs) :
          /\ reqs[r].after = "stop"
          /\ reqs[r].ended
          /\ reqs[r].cbCalls = 0


\* C24: a record the probe emits for a request made outside every activation
\* scope makes no event on the send queue, and the callback logs an error for
\* it. The callback of instrumentHttpClient() logs only when a scope is active
\* and holds no agent; without an active scope it returns silently.
C24_OutsideScopeDroppedAndLogged ==
    \A r \in 1..Len(reqs) :
        (reqs[r].cb = "newrelic" /\ reqs[r].scope = NoScope /\ reqs[r].cbCalls >= 1) =>
            /\ HttpEventsOf(r) = {}
            /\ \A k \in 1..Len(queue) : queue[k].r # r
            /\ reqs[r].logged >= 1


\* C25: no exception leaves a listener of the probe: whatever the metrics
\* callback throws is trapped, and the http client that emitted the event never
\* sees it. The listeners and triggerMetrics() have no try/catch.
C25_ListenerExceptionsTrapped ==
    \A r \in 1..Len(reqs) : r \notin uncaught


\* the events the deadline timers have made, and for such an event the callback
\* its agent was given and the defaults of that agent
TimeoutEvents == {e \in pushed : e.src = "deadline"}
GivenCallback(e) == agent[e.a].opts.cb
IsFunction(cb) == cb \in {"function", "custom"}

\* what C26 says of the attributes of the deadline's event e: the callback's
\* result if the callback is a function, otherwise {duration} with the time
\* computed when the timer was armed, all of them in the event as they are
TimeoutAttributes(e) ==
    /\ IsFunction(GivenCallback(e)) =>
          /\ DOMAIN e.given = DOMAIN CallbackResult(GivenCallback(e), 0)
          /\ \A k \in DOMAIN e.given : e.given[k].src = "callback"
    /\ ~IsFunction(GivenCallback(e)) =>
          e.given = Obj({"duration"}, "timeUntilTimeout", agent[e.a].timeout)
    /\ \A k \in DOMAIN e.given : e.m[k] = e.given[k]

\* C26 as stated: the attributes of the deadline's event are those of the
\* callback or the default {duration}, and its eventType is "timeout" unless the
\* callback's result has an eventType.
C26_TimeoutEventTypeAsStated ==
    \A e \in TimeoutEvents :
        /\ TimeoutAttributes(e)
        /\ e.m["eventType"].src =
              IF "eventType" \in DOMAIN e.given THEN "callback" ELSE "timeout"

\* C26, amended: the same attributes; the eventType is the one of the callback's
\* result if it has one, otherwise the one of the agent's default metrics if
\* they have one, otherwise "timeout".
C26_TimeoutEvent ==
    \A e \in TimeoutEvents :
        /\ TimeoutAttributes(e)
        /\ e.m["eventType"] =
              IF "eventType" \in DOMAIN e.given THEN e.given["eventType"]
              ELSE IF "eventType" \in DOMAIN Defaults(e.a) THEN Defaults(e.a)["eventType"]
              ELSE Val("timeout", e.m["timestamp"].at)

\* deadlines have fired for an agent whose callback is no function and whose
\* defaults name an eventType: the event has the default duration and the
\* eventType of the defaults
C26_Witness ==
    \E e \in TimeoutEvents :
        /\ GivenCallback(e) = "object"
        /\ "duration" \in DOMAIN e.m
        /\ e.m["eventType"].src = "constructor"
        /\ Posted(e)


\* C27: an agent constructed with options.disableActionTimeout, or while
\* DISABLE_ACTION_TIMEOUT_METRIC is set, has no deadline timer and no event of a
\* deadline, before and after activationFinished().
C27_DisabledTimerNeverFires ==
    \A i \in Activations :
        (agent[i].pc # "new" /\ (agent[i].opts.disableActionTimeout \/ agent[i].opts.envDisabled)) =>
            /\ agent[i].timer = "unset"
            /\ agent[i].handler = "none"
            /\ \A e \in pushed : e.a = i => (e.src # "deadline" /\ e.type # "timeout")

\* an agent disabled by the environment alone, with a callback for the deadline,
\* has sent an event and called activationFinished()
C27_Witness ==
    \E i \in Activations :
        /\ agent[i].pc # "new"
        /\ agent[i].opts.envDisabled /\ ~agent[i].opts.disableActionTimeout
        /\ agent[i].opts.cb = "function"
        /\ agent[i].fin >= 1
        /\ \E e \in pushed : e.a = i /\ Posted(e)


\* C28: in the timing metrics of every http event, a durationReceive that is
\* present is not negative and not larger than the duration, in whichever order
\* the request's socket, finish, readable and end events came and however the
\* clock moved between them.
C28_DurationBoundsReceive ==
    \A r \in 1..Len(reqs) : \A k \in 1..Len(reqs[r].timing) :
        LET t == reqs[r].timing[k] IN
        (HttpEventsOf(r) # {} /\ t.durationReceive # <<>>) =>
            /\ t.duration # <<>>
            /\ t.durationReceive[1] >= 0
            /\ t.duration[1] >= t.durationReceive[1]

\* the event of a request that ended: its first byte came in one second and its
\* end in the next, after the request had been sent and before a socket event
C28_Witness ==
    \E r \in 1..Len(reqs) :
        /\ HttpEventsOf(r) # {}
        /\ reqs[r].first = "end"
        /\ reqs[r].timing[1].durationReceive # <<>>
        /\ reqs[r].timings.endAt[1][1] > reqs[r].timings.firstByteAt[1][1]
        /\ reqs[r].timings.endAt[1][2] < reqs[r].timings.firstByteAt[1][2]
        /\ reqs[r].timing[1].durationReceive[1] > 0
        /\ reqs[r].timing[1].duration[1] > reqs[r].timing[1].durationReceive[1]
        /\ reqs[r].timing[1].durationWait # <<>>
        /\ reqs[r].timing[1].durationBlocked = <<>>
        /\ reqs[r].timings.socketAt # <<>>

\* the metrics object given to flatten() holds only values of the contract
SupportedMetrics ==
    \A k \in 1..Len(called.metrics) : called.metrics[k].value \in Supported

\* C29: flatten is deterministic and idempotent: on a supported metrics object two
\* calls return equal results, and flattening a result flatten() returned gives
\* that result again, nested objects holding long strings included.
C29_FlattenIdempotentDeterministic ==
    SupportedMetrics =>
        /\ \A a, b \in 1..Len(called.results) : called.results[a] = called.results[b]
        /\ called.again # <<>> => called.again[1] = called.results[1]

\* C30: flatten never throws on a metrics object holding only numbers, strings,
\* booleans, bigints, null, undefined, nested objects, string-keyed maps,
\* sequences, sets and errors, empty sequences, empty sets and maps holding null
\* included.
C30_FlattenTotal ==
    SupportedMetrics =>
        \A k \in 1..Len(called.results) : called.results[k].threw = "none"

\* the keys under which the metrics objects hold their nested values, as prefixes
ParentPaths == {"", "message_", "parent_", "message_parent_", "parent_parent_"}

\* the limit that applies to the string under a key of the result: the one of
\* error metrics when the value's own key, after its parents, is such a name
LimitOf(name) ==
    IF \E p \in ParentPaths, k \in ERROR_METRIC_NAMES : name = p \o k
    THEN ErrorMetricMaxStringLength
    ELSE DEFAULT_MAX_STRING_LENGTH

\* a string as the contract leaves it under a limit
Cut(str, limit) ==
    IF str.len > limit THEN [type |-> "string", len |-> limit, dots |-> TRUE] ELSE str

\* C31: every string in a result of flatten is at most as long as the limit of its
\* own key (100; 1500 or the environment's value under message, errorMessage and
\* error, at any depth); a string given directly or in a nested object comes out
\* unchanged when within the limit and otherwise cut to exactly the limit, ending
\* with "...".
C31_StringsWithinLimit ==
    SupportedMetrics =>
        \A k \in 1..Len(called.results) :
            LET result == called.results[k].value
                given == called.metrics[1]
            IN  called.results[k].threw = "none" =>
                  /\ \A e \in 1..Len(result) :
                        result[e].value.type = "string" =>
                            result[e].value.len <= LimitOf(result[e].key)
                  /\ (Len(called.metrics) = 1 /\ given.value.type = "string") =>
                        result = <<Entry(given.key,
                                         Cut(given.value, LimitOf(given.key)))>>
                  /\ (/\ Len(called.metrics) = 1
                      /\ given.value.type = "object"
                      /\ Len(given.value.entries) = 1
                      /\ given.value.entries[1].value.type = "string") =>
                        LET name == given.key \o "_" \o given.value.entries[1].key
                        IN  result = <<Entry(name, Cut(given.value.entries[1].value,
                                                      LimitOf(name)))>>

\* the bodies of fetch() calls of the agent that hold event e
PostsOf(e) ==
    {k \in 1..Len(self.posts) :
        \E j \in 1..Len(self.posts[k]) : self.posts[k][j] = e}

\* e is in the body of a fetch() call made, or of one being prepared
Taken(e) ==
    \/ PostsOf(e) # {}
    \/ \E k \in 1..Len(self.flushes) :
          \E j \in 1..Len(self.flushes[k].array) : self.flushes[k].array[j] = e

\* C32: with sendImmediately unset, an event send() has queued is in the body of
\* a POST (made or being prepared) once activationFinished() has been called, and
\* once more than sendIntervalMsec have passed since it was queued, also when an
\* interval flush has taken place before.
C32_PostedWithinInterval ==
    ~self.sendImmediately =>
        \A e \in self.accepted :
            (self.finished \/ self.now - e.at > self.sendIntervalMsec) => Taken(e)

\* C39: no event send() has queued is in the bodies of two POSTs, and once the
\* activation has finished and no POST is in flight every one of them is in the
\* body of one.
C39_ExactlyOnePost ==
    \A e \in self.accepted :
        /\ Cardinality(PostsOf(e)) <= 1
        /\ (self.finished /\ self.flushes = <<>>) => Cardinality(PostsOf(e)) = 1

\* C33: without any further send(), the started queue ends up empty for good and
\* every event that was enqueued and that Metrics.flatten() accepts has been in
\* the body of a POST, whatever the endpoint answered to earlier batches.
C33_EveryEventEventuallyPosted ==
    <>[](/\ queue = <<>>
         /\ \A e \in pushed : e.ok => Posted(e))

\* the queue ends up empty for good and no flush is pending
QueueDrains ==
    <>[](queue = <<>> /\ immediates = <<>> /\ flights = <<>>)

\* when Metrics.flatten() accepts every event, each ends up in the body of a POST
FlattenedEventsPosted ==
    <>[]((\A e \in pushed : e.ok) => (\A e \in pushed : Posted(e)))

\* the events a step takes off the head of the queue
TakenOff == {queue[k] : k \in 1..(Len(queue) - Len(queue'))}

\* C35: when a flush that no send() has asked for (the interval timer's, or one
\* chained with setImmediate) takes events off the queue and Metrics.flatten()
\* rejects one of them, the others it took are in the body of a POST being
\* prepared.
C35_OthersStillPosted ==
    [][(pushed' = pushed /\ Len(queue') < Len(queue)) =>
          \A e \in TakenOff :
              e.ok => \E k \in 1..Len(flights') : Occurs(e, flights'[k].batch) > 0
      ]_vars

\* C34: when send() is called with immediately set and metrics Metrics.flatten()
\* rejects, the promise send() returns is rejected with the error; no promise of
\* send() is rejected otherwise.
C34_UnsupportedSurfacesOnImmediate ==
    /\ \A i \in Activations :
          (agent[i].imm # <<>> /\ ~agent[i].imm[1].ok /\ agent[i].pc = "run") =>
              "send" \in rejections
    /\ "send" \in rejections =>
          \E i \in Activations : agent[i].imm # <<>> /\ ~agent[i].imm[1].ok

\* C36: once the metrics callback has thrown for a request, no later event of
\* that request ("error", "timeout" or the response's "end") invokes it again.
C36_NoSecondCallAfterThrow ==
    [][\A r \in 1..Len(reqs) :
          r \in uncaught => reqs'[r].cbCalls = reqs[r].cbCalls
      ]_vars

\* the default port of a protocol
DefaultPortOf(protocol) == IF protocol = "https:" THEN 443 ELSE 80

\* C38: the port of a record is the explicit port, else the default port given,
\* else the default port of the protocol the record reports; and the url of the
\* record leaves the port out exactly when it is the default port of that
\* protocol.
C38_PortFollowsReportedProtocol ==
    called.metrics # <<>> =>
        LET m == called.metrics[1]
            o == called.opts
        IN  /\ m.port = IF o.port # <<>> THEN o.port[1]
                        ELSE IF o.defaultPort # <<>> THEN o.defaultPort[1]
                        ELSE PortNumber(DefaultPortOf(m.protocol))
            /\ (m.portForUrl = <<>>) <=> (m.port.n = DefaultPortOf(m.protocol))

\* C37: with a deadline in the environment, timeUntilTimeout() returns the
\* deadline minus the time of the call, also for a deadline that is not after
\* it, and the action timeout timer is set to that difference minus the buffer
\* of 5000 ms.
C37_TimeUntilTimeoutIsDifference ==
    called.deadline # <<>> =>
        /\ called.result # <<>> =>
              called.result[1].value = called.deadline[1] - called.result[1].at
        /\ called.timer # <<>> =>
              called.timer[1].delay =
                  (called.deadline[1] - called.timer[1].at) - TIMEOUT_BUFFER

\* the samples the interval has taken
IntervalSamples ==
    {k \in 1..Len(sampler.samples) : sampler.samples[k].by = "interval"}

\* C40: a sampler constructed with a positive interval has, until finish() is
\* called, taken one sample for every interval that has passed; and once
\* finish() has resolved, it has resolved to the summary of all the samples
\* taken, none being taken after.
C40_SamplesAtIntervalUntilFinish ==
    sampler.intervalTimeout > 0 =>
        /\ sampler.finish = "none" =>
              Cardinality(IntervalSamples) = sampler.now \div sampler.interval
        /\ sampler.finish \notin {"none", "waiting"} =>
              /\ sampler.finish = "resolved"
              /\ sampler.summary = <<[type |-> "returned", value |-> sampler.samples]>>

=============================================================================
